---- MODULE Spec2Model ----
(***************************************************************************)
(* Model of the langchain codemods: each script is a transform over one    *)
(* parsed Python buffer (root), which queries the syntax tree, plans a     *)
(* list of edits and commits them.                                         *)
(*                                                                         *)
(* Text is a sequence of atoms.  Punctuation and white space are one atom  *)
(* per character (",", " ", "\n", "(", ...); an identifier is one atom,    *)
(* or several when the scripts test for a part of it ("My" "SystemMessage")*)
(* Offsets count atoms, start at 0, and spans are half open, as the byte   *)
(* offsets of range().start.index / range().end.index.                     *)
(*                                                                         *)
(* A tree is the pre-order sequence of its nodes; a node's id is its       *)
(* index.  parent = 0 marks a top node, field is the field name the node   *)
(* has in its parent ("" when none).                                       *)
(***************************************************************************)
EXTENDS Integers, Sequences, FiniteSets, TLC

VARIABLES
    script,   \* which codemod runs on the buffer
    root,     \* rootNode: [text, nodes], immutable during a pass
    pc,       \* position in transform()
    found,    \* the nodes the script's first findAll returned (agentCalls, ...)
    i,        \* index of the loop over found
    edits,    \* const edits: Edit[]
    count,    \* the script's counter local (transformedToolNodeCount, ...)
    importEdit, \* the edit planned for the import statement, NoEdit when none
    result,   \* what transform() returns: the new text, or Null
    pass,     \* how many times the script has been started on the buffer
    namesToRename, \* Map of create-react-agent-to-create-agent, in insertion order
    processedNodeIds \* Set of node ids of langchain-stream-event-agent-to-model

vars ==
    <<script, root, pc, found, i, edits, count, importEdit, result, pass, namesToRename,
      processedNodeIds>>

Null == "null"
NoNode == 0

-----------------------------------------------------------------------------
(* Sequence helpers *)

RECURSIVE FlattenSeq(_)
FlattenSeq(ss) ==
    IF ss = <<>> THEN <<>> ELSE Head(ss) \o FlattenSeq(Tail(ss))

Range(s) == {s[k] : k \in DOMAIN s}

Indices(n) == [k \in 1..n |-> k]

\* text.slice(a, b) for 0 <= a, b (offsets, half open)
Slice(t, a, b) == SubSeq(t, a + 1, b)

\* text[k] of JavaScript: the atom at offset k, or "undefined" outside
At(t, k) == IF k >= 0 /\ k < Len(t) THEN t[k + 1] ELSE "undefined"

\* text.substring(a, b): negative offsets are clamped to 0, large ones to length
Clamp(t, k) == IF k < 0 THEN 0 ELSE IF k > Len(t) THEN Len(t) ELSE k
Substring(t, a, b) ==
    LET x == Clamp(t, a)
        y == Clamp(t, b)
    IN  IF x <= y THEN Slice(t, x, y) ELSE Slice(t, y, x)

\* offsets at which pat occurs in t
Occurrences(t, pat) ==
    {k \in 0..(Len(t) - Len(pat)) : Slice(t, k, k + Len(pat)) = pat}

Includes(t, pat) == Occurrences(t, pat) # {}

Min(S) == CHOOSE x \in S : \A y \in S : x <= y
Max(S) == CHOOSE x \in S : \A y \in S : x >= y

Count(t, a) == Cardinality({k \in DOMAIN t : t[k] = a})

-----------------------------------------------------------------------------
(* Syntax tree construction: the shapes the Python grammar gives the       *)
(* constructs the scripts query.                                           *)

MkNode(k, s, e, p, f) == [kind |-> k, s |-> s, e |-> e, parent |-> p, field |-> f]

Ws(t) == [text |-> t, nodes |-> <<>>]

Leaf(k, t) == [text |-> t, nodes |-> <<MkNode(k, 0, Len(t), 0, "")>>]

Shift(ns, dOff, dIdx) ==
    [k \in 1..Len(ns) |->
        [ns[k] EXCEPT !.s = @ + dOff, !.e = @ + dOff,
                      !.parent = IF @ = 0 THEN 0 ELSE @ + dIdx]]

Cat(f, g) ==
    [text  |-> f.text \o g.text,
     nodes |-> f.nodes \o Shift(g.nodes, Len(f.text), Len(f.nodes))]

RECURSIVE CatAll(_)
CatAll(fs) == IF fs = <<>> THEN Ws(<<>>) ELSE Cat(Head(fs), CatAll(Tail(fs)))

Wrap(k, f) ==
    [text  |-> f.text,
     nodes |-> <<MkNode(k, 0, Len(f.text), 0, "")>>
               \o [j \in 1..Len(f.nodes) |-> [f.nodes[j] EXCEPT !.parent = @ + 1]]]

InField(name, f) ==
    [f EXCEPT !.nodes =
        [j \in 1..Len(f.nodes) |->
            IF f.nodes[j].parent = 0 THEN [f.nodes[j] EXCEPT !.field = name]
            ELSE f.nodes[j]]]

Tok(a) == Leaf(a, <<a>>)
Id(a) == Leaf("identifier", <<a>>)
Sp == Ws(<<" ">>)
Nl == Ws(<<"\n">>)

\* a . b
Attr(obj, name) ==
    Wrap("attribute",
         CatAll(<<InField("object", obj), Tok("."), InField("attribute", Id(name))>>))

\* name=value
Kw(name, val) ==
    Wrap("keyword_argument",
         CatAll(<<InField("name", Id(name)), Tok("="), InField("value", val)>>))

\* ( items ), items holding the arguments, the commas and the white space
ArgList(items) == Wrap("argument_list", CatAll(<<Tok("(")>> \o items \o <<Tok(")")>>))

\* items separated by ", "
RECURSIVE CommaSep(_)
CommaSep(fs) ==
    IF Len(fs) <= 1 THEN fs
    ELSE <<Head(fs), Tok(","), Sp>> \o CommaSep(Tail(fs))

Call(fn, items) ==
    Wrap("call", Cat(InField("function", fn), InField("arguments", ArgList(items))))

ExprStmt(e) == Wrap("expression_statement", e)

\* statements, each followed by one line terminator
RECURSIVE Lines(_)
Lines(stmts) ==
    IF stmts = <<>> THEN <<>> ELSE <<Head(stmts), Nl>> \o Lines(Tail(stmts))

Module(parts) == Wrap("module", CatAll(parts))

-----------------------------------------------------------------------------
(* TreeView: the queries of SgNode the scripts use *)

Kind(T, n) == T.nodes[n].kind
StartOf(T, n) == T.nodes[n].s
EndOf(T, n) == T.nodes[n].e
TextOf(T, n) == Slice(T.text, T.nodes[n].s, T.nodes[n].e)
ParentOf(T, n) == T.nodes[n].parent

\* node.children(): in source order
ChildrenOf(T, n) ==
    SelectSeq(Indices(Len(T.nodes)), LAMBDA k : T.nodes[k].parent = n)

\* node.field(name): NoNode when absent
FieldOf(T, n, name) ==
    LET cs == SelectSeq(ChildrenOf(T, n), LAMBDA k : T.nodes[k].field = name)
    IN  IF cs = <<>> THEN NoNode ELSE cs[1]

\* node.ancestors(): innermost first
RECURSIVE AncestorsOf(_, _)
AncestorsOf(T, n) ==
    IF T.nodes[n].parent = 0 THEN <<>>
    ELSE <<T.nodes[n].parent>> \o AncestorsOf(T, T.nodes[n].parent)

\* the nodes node.find / node.findAll visit: n and its descendants, pre-order
\* (pre-order: the descendants of n follow it, up to the first node whose parent
\* comes before n)
RECURSIVE SubtreeEnd(_, _, _)
SubtreeEnd(T, n, k) ==
    IF k < Len(T.nodes) /\ T.nodes[k + 1].parent >= n THEN SubtreeEnd(T, n, k + 1) ELSE k

SubtreeOf(T, n) == [k \in 1..(SubtreeEnd(T, n, n) - n + 1) |-> n + k - 1]

\* the node ids of a tree; a rule is given as the set of the nodes that match it
Nodes(T) == 1..Len(T.nodes)

\* node.findAll({rule: S})
FindAll(T, n, S) == SelectSeq(SubtreeOf(T, n), LAMBDA k : k \in S)

\* node.find({rule: S}): first match, NoNode when none
Find(T, n, S) ==
    LET ms == FindAll(T, n, S) IN IF ms = <<>> THEN NoNode ELSE ms[1]

\* rule {kind: k}
IsKind(T, n, k) == T.nodes[n].kind = k

\* rule {kind: "identifier", regex: "^name$"}
IsIdent(T, n, name) == T.nodes[n].kind = "identifier" /\ TextOf(T, n) = <<name>>

\* relational rule has: {...} (stopBy neighbor): some direct child is in S
HasChild(T, n, S) == \E c \in Range(ChildrenOf(T, n)) : c \in S

\* node.replace(text)
Replace(T, n, text) ==
    [startPos |-> T.nodes[n].s, endPos |-> T.nodes[n].e, insertedText |-> text]

MkEdit(s, e, text) == [startPos |-> s, endPos |-> e, insertedText |-> text]

NoEdit == [startPos |-> -1, endPos |-> -1, insertedText |-> <<>>]

\* the text one edit leaves
ApplyEdit(t, ed) ==
    Slice(t, 0, ed.startPos) \o ed.insertedText \o Slice(t, ed.endPos, Len(t))

\* edits.sort_by_key(start_pos): stable insertion sort
RECURSIVE InsertEdit(_, _)
InsertEdit(sorted, ed) ==
    IF sorted = <<>> THEN <<ed>>
    ELSE IF ed.startPos < Head(sorted).startPos THEN <<ed>> \o sorted
    ELSE <<Head(sorted)>> \o InsertEdit(Tail(sorted), ed)

RECURSIVE SortEdits(_)
SortEdits(es) ==
    IF es = <<>> THEN <<>>
    ELSE InsertEdit(SortEdits(SubSeq(es, 1, Len(es) - 1)), es[Len(es)])

\* one pass over the sorted edits; an edit that starts before the cursor is skipped
RECURSIVE CommitFrom(_, _, _)
CommitFrom(t, es, cursor) ==
    IF es = <<>> THEN Slice(t, cursor, Len(t))
    ELSE IF cursor > Head(es).startPos THEN CommitFrom(t, Tail(es), cursor)
    ELSE Slice(t, cursor, Head(es).startPos) \o Head(es).insertedText
         \o CommitFrom(t, Tail(es), Head(es).endPos)

\* rootNode.commitEdits(edits)
CommitEdits(T, es) == CommitFrom(T.text, SortEdits(es), 0)

\* a return that commits whatever the list holds
CommitAlways(T, es) == CommitEdits(T, es)

\* if (edits.length === 0) { return null; } return rootNode.commitEdits(edits);
ReturnValue(T, es) == IF es = <<>> THEN Null ELSE CommitEdits(T, es)

-----------------------------------------------------------------------------
(* Import statements: from M import NAMES, in the layouts found in source  *)
(* files.  A layout fixes the parentheses, the white space around each     *)
(* comma and whether a comma follows the last name.                        *)

Layouts == {"line", "tight", "wide", "spaced", "multi", "multiT"}

LayoutParen(l) == l \in {"multi", "multiT"}
LayoutTrailing(l) == l = "multiT"
LayoutBeforeComma(l) == IF l = "spaced" THEN <<" ">> ELSE <<>>
LayoutAfterComma(l) ==
    CASE l = "line"   -> <<" ">>
      [] l = "tight"  -> <<>>
      [] l = "wide"   -> <<" ", " ">>
      [] l = "spaced" -> <<" ">>
      [] OTHER        -> <<"\n", " ", " ">>
LayoutOpen(l) == IF LayoutParen(l) THEN <<"\n", " ", " ">> ELSE <<>>
LayoutClose(l) == IF LayoutParen(l) THEN <<"\n">> ELSE <<>>

\* a dotted name of one identifier, the identifier given by its atoms
Name(atoms) == Wrap("dotted_name", Leaf("identifier", atoms))

\* a.b
Dotted2(a, b) == Wrap("dotted_name", CatAll(<<Id(a), Tok("."), Id(b)>>))

\* name as alias
Aliased(atoms, alias) ==
    Wrap("aliased_import",
         CatAll(<<InField("name", Name(atoms)), Sp, Tok("as"), Sp,
                  InField("alias", Id(alias))>>))

RECURSIVE ImportList(_, _)
ImportList(names, l) ==
    IF Len(names) = 1
    THEN <<InField("name", Head(names))>>
         \o (IF LayoutTrailing(l) THEN <<Tok(",")>> ELSE <<>>)
    ELSE <<InField("name", Head(names)), Ws(LayoutBeforeComma(l)), Tok(","),
           Ws(LayoutAfterComma(l))>> \o ImportList(Tail(names), l)

ImportFrom(module, names, l) ==
    Wrap("import_from_statement",
         CatAll(<<Tok("from"), Sp, InField("module_name", module), Sp, Tok("import"), Sp>>
                \o (IF LayoutParen(l) THEN <<Tok("("), Ws(LayoutOpen(l))>> ELSE <<>>)
                \o ImportList(names, l)
                \o (IF LayoutParen(l) THEN <<Ws(LayoutClose(l)), Tok(")")>> ELSE <<>>)))

\* the lists of n names that hold target at position p, the others drawn from a, b
OtherNames == <<<<"a">>, <<"b">>, <<"c">>>>
NamesWith(target, n, p) ==
    [k \in 1..n |-> IF k = p THEN Name(target)
                    ELSE Name(OtherNames[IF k < p THEN k ELSE k - 1])]

-----------------------------------------------------------------------------
(* unwrap-tool-node-in-agent *)

isToolNodeCall(T, callNode) ==
    LET func == FieldOf(T, callNode, "function")
    IN  /\ func # NoNode
        /\ \/ IsIdent(T, func, "ToolNode")
           \/ /\ IsKind(T, func, "attribute")
              /\ LET attrName == FieldOf(T, func, "attribute")
                 IN  attrName # NoNode /\ TextOf(T, attrName) = <<"ToolNode">>

targetFunctions == {<<"create_agent">>, <<"create_react_agent">>}

isAgentCreationCall(T, callNode) ==
    LET func == FieldOf(T, callNode, "function")
    IN  /\ func # NoNode
        /\ \/ IsKind(T, func, "identifier") /\ TextOf(T, func) \in targetFunctions
           \/ /\ IsKind(T, func, "attribute")
              /\ LET attrName == FieldOf(T, func, "attribute")
                 IN  attrName # NoNode /\ TextOf(T, attrName) \in targetFunctions

\* the children of the argument list that are not punctuation
ActualArgs(T, argList) ==
    SelectSeq(ChildrenOf(T, argList), LAMBDA c : Kind(T, c) \notin {"(", ")", ","})

hasSingleArgument(T, toolNodeCall) ==
    LET argList == FieldOf(T, toolNodeCall, "arguments")
    IN  /\ argList # NoNode
        /\ Len(ActualArgs(T, argList)) = 1
        /\ ~IsKind(T, ActualArgs(T, argList)[1], "keyword_argument")

getSingleArgument(T, toolNodeCall) ==
    LET argList == FieldOf(T, toolNodeCall, "arguments")
    IN  IF argList = NoNode THEN NoNode
        ELSE IF Len(ActualArgs(T, argList)) = 1 THEN ActualArgs(T, argList)[1]
        ELSE NoNode

\* the ToolNode call that is the value of the first matching tools= keyword
findToolsArgWithToolNode(T, agentCall) ==
    LET argList == FieldOf(T, agentCall, "arguments")
        toolsKwArgs ==
            FindAll(T, argList,
                {n \in Nodes(T) :
                    /\ IsKind(T, n, "keyword_argument")
                    /\ HasChild(T, n, {c \in Nodes(T) : /\ T.nodes[c].field = "name"
                                                        /\ IsIdent(T, c, "tools")})})
        ok == SelectSeq(toolsKwArgs,
                LAMBDA kwArg :
                    LET value == FieldOf(T, kwArg, "value")
                    IN  /\ value # NoNode
                        /\ IsKind(T, value, "call")
                        /\ isToolNodeCall(T, value)
                        /\ hasSingleArgument(T, value))
    IN  IF argList = NoNode \/ ok = <<>> THEN NoNode
        ELSE FieldOf(T, ok[1], "value")

\* the calls whose function is the bare identifier ToolNode
countToolNodeUsages(T) ==
    Len(FindAll(T, 1,
            {n \in Nodes(T) :
                /\ IsKind(T, n, "call")
                /\ HasChild(T, n, {c \in Nodes(T) : /\ T.nodes[c].field = "function"
                                                    /\ IsIdent(T, c, "ToolNode")})}))

\* offset of the first atom at or before k that is not a space
RECURSIVE SkipSpacesBack(_, _)
SkipSpacesBack(t, k) ==
    IF k >= 0 /\ At(t, k) = " " THEN SkipSpacesBack(t, k - 1) ELSE k

\* offset of the first atom at or after k that is not a space
RECURSIVE SkipSpaces(_, _)
SkipSpaces(t, k) ==
    IF k < Len(t) /\ At(t, k) = " " THEN SkipSpaces(t, k + 1) ELSE k

\* the dotted_name children of the statement that follow the import keyword
ImportedNameChildren(T, importStmt) ==
    LET cs == ChildrenOf(T, importStmt)
        kw == {k \in DOMAIN cs : Kind(T, cs[k]) = "import"}
    IN  IF kw = {} THEN <<>>
        ELSE SelectSeq(SubSeq(cs, Min(kw) + 1, Len(cs)),
                       LAMBDA c : Kind(T, c) = "dotted_name")

\* end of a removed statement: one line terminator, and a second one if it follows
StatementEndWithBlank(T, importStmt) ==
    LET endPos == EndOf(T, importStmt)
        fullText == T.text
    IN  IF endPos < Len(fullText) /\ At(fullText, endPos) = "\n"
        THEN IF endPos + 1 < Len(fullText) /\ At(fullText, endPos + 1) = "\n"
             THEN endPos + 2
             ELSE endPos + 1
        ELSE endPos

\* the span of one name of a list with its comma: the comma before it when only
\* spaces separate them, else the comma after it and the spaces that follow
NameWithComma(T, nameNode) ==
    LET fullText == T.text
        startPos == StartOf(T, nameNode)
        endPos == EndOf(T, nameNode)
        lookBehind == SkipSpacesBack(fullText, startPos - 1)
        lookAhead == SkipSpaces(fullText, endPos)
    IN  IF lookBehind >= 0 /\ At(fullText, lookBehind) = ","
        THEN MkEdit(lookBehind, endPos, <<>>)
        ELSE IF lookAhead < Len(fullText) /\ At(fullText, lookAhead) = ","
        THEN MkEdit(startPos, SkipSpaces(fullText, lookAhead + 1), <<>>)
        ELSE MkEdit(startPos, endPos, <<>>)

\* the body of the loop over importedNames: NoEdit stands for continue
ImportEditForName(T, importStmt, nameNode) ==
    LET moduleNameNode ==
            Find(T, importStmt,
                 {n \in Nodes(T) :
                    /\ IsKind(T, n, "dotted_name")
                    /\ ParentOf(T, n) # 0
                    /\ IsKind(T, ParentOf(T, n), "import_from_statement")
                    /\ T.nodes[n].field = "module_name"})
        allImportedNames == ImportedNameChildren(T, importStmt)
        toolNodeIdentifier == Find(T, nameNode, {n \in Nodes(T) : IsIdent(T, n, "ToolNode")})
    IN  IF moduleNameNode # NoNode /\ moduleNameNode = nameNode THEN NoEdit
        ELSE IF Len(allImportedNames) = 1
        THEN MkEdit(StartOf(T, importStmt), StatementEndWithBlank(T, importStmt), <<>>)
        ELSE IF toolNodeIdentifier = NoNode THEN NoEdit
        ELSE NameWithComma(T, nameNode)

\* the first edit the nested loops over imports and importedNames return
createImportRemovalEdit(T, remainingToolNodeUsages) ==
    LET imports == FindAll(T, 1, {n \in Nodes(T) : IsKind(T, n, "import_from_statement")})
        candidates ==
            FlattenSeq(
                [k \in 1..Len(imports) |->
                    IF ~Includes(TextOf(T, imports[k]), <<"ToolNode">>) THEN <<>>
                    ELSE LET importedNames ==
                                FindAll(T, imports[k],
                                    {n \in Nodes(T) :
                                        /\ IsKind(T, n, "dotted_name")
                                        /\ HasChild(T, n,
                                              {c \in Nodes(T) : IsIdent(T, c, "ToolNode")})})
                         IN  [m \in 1..Len(importedNames) |->
                                ImportEditForName(T, imports[k], importedNames[m])]])
        made == SelectSeq(candidates, LAMBDA ed : ed # NoEdit)
    IN  IF remainingToolNodeUsages > 0 \/ made = <<>> THEN NoEdit ELSE made[1]

\* const agentCalls = rootNode.findAll({kind: "call"})
UnwrapCalls(T) == FindAll(T, 1, {n \in Nodes(T) : IsKind(T, n, "call")})

\* the ToolNode call one iteration of the loop replaces, NoNode when it continues
UnwrapMatch(T, call) ==
    IF ~isAgentCreationCall(T, call) THEN NoNode
    ELSE LET toolNodeCall == findToolsArgWithToolNode(T, call)
         IN  IF toolNodeCall = NoNode THEN NoNode
             ELSE IF getSingleArgument(T, toolNodeCall) = NoNode THEN NoNode
             ELSE toolNodeCall

(* Input buffers of unwrap-tool-node-in-agent: an optional import of       *)
(* ToolNode from langgraph.prebuilt, one or two line terminators, then     *)
(* statements that use ToolNode.                                           *)

MaxNames == 3
MaxStmts == 2

UnwrapKindOrder ==
    <<"agentBare", "agentQual", "agentMulti", "callBare", "callQual", "ref">>

UnwrapStmtKinds == {"agentBare", "agentQual", "agentMulti", "callBare", "callQual", "ref"}

UnwrapStmt(k) ==
    CASE k = "agentBare" ->
            \* create_agent(tools=ToolNode(x))
            ExprStmt(Call(Id("create_agent"),
                          <<Kw("tools", Call(Id("ToolNode"), <<Id("x")>>))>>))
      [] k = "agentQual" ->
            \* lg.create_react_agent(tools=lg.ToolNode(x))
            ExprStmt(Call(Attr(Id("lg"), "create_react_agent"),
                          <<Kw("tools", Call(Attr(Id("lg"), "ToolNode"), <<Id("x")>>))>>))
      [] k = "agentMulti" ->
            \* create_agent(tools=ToolNode(x, y=z))
            ExprStmt(Call(Id("create_agent"),
                          <<Kw("tools", Call(Id("ToolNode"),
                                             CommaSep(<<Id("x"), Kw("y", Id("z"))>>)))>>))
      [] k = "callBare" ->
            \* ToolNode(x)
            ExprStmt(Call(Id("ToolNode"), <<Id("x")>>))
      [] k = "callQual" ->
            \* lg.ToolNode(x)
            ExprStmt(Call(Attr(Id("lg"), "ToolNode"), <<Id("x")>>))
      [] k = "nested" ->
            \* create_agent(model=create_react_agent(tools=ToolNode(x)))
            ExprStmt(Call(Id("create_agent"),
                          <<Kw("model",
                               Call(Id("create_react_agent"),
                                    <<Kw("tools", Call(Id("ToolNode"), <<Id("x")>>))>>))>>))
      [] k = "nestedOwn" ->
            \* create_agent(tools=ToolNode(x), model=create_react_agent(tools=ToolNode(y)))
            ExprStmt(Call(Id("create_agent"),
                          CommaSep(<<Kw("tools", Call(Id("ToolNode"), <<Id("x")>>)),
                                     Kw("model",
                                        Call(Id("create_react_agent"),
                                             <<Kw("tools",
                                                  Call(Id("ToolNode"), <<Id("y")>>))>>))>>)))
      [] OTHER ->
            \* ToolNode
            ExprStmt(Id("ToolNode"))

\* the bodies of 1..n statements, the kinds given in a fixed order: statements are
\* independent of each other, so one order per choice of kinds is generated
StmtSeqs(kinds, order, n) ==
    {b \in UNION {[1..m -> kinds] : m \in 1..n} :
        \A k \in 1..(Len(b) - 1) : \E x, y \in DOMAIN order :
            order[x] = b[k] /\ order[y] = b[k + 1] /\ x <= y}

\* the shapes of an import list: n names, the target at position p, layout l
ListShapes == {x \in (1..MaxNames) \X (1..MaxNames) \X Layouts : x[2] <= x[1]}

Gaps == {1, 2}

ToolNodeImport(shape) ==
    ImportFrom(Dotted2("langgraph", "prebuilt"),
               NamesWith(<<"ToolNode">>, shape[1], shape[2]), shape[3])

UnwrapBodies == StmtSeqs(UnwrapStmtKinds, UnwrapKindOrder, MaxStmts)

\* the buffer: an import (none when gap = 0), gap line terminators, the statements
UnwrapInput(shape, gap, body) ==
    Module((IF gap = 0 THEN <<>> ELSE <<ToolNodeImport(shape)>> \o [k \in 1..gap |-> Nl])
           \o Lines([k \in 1..Len(body) |-> UnwrapStmt(body[k])]))

InitUnwrap ==
    /\ script = "unwrap"
    /\ \E shape \in ListShapes, gap \in Gaps \cup {0}, body \in UnwrapBodies :
          /\ gap = 0 => shape = <<1, 1, "line">>
          /\ root = UnwrapInput(shape, gap, body)
    /\ pc = "loop"
    /\ found = UnwrapCalls(root)
    /\ i = 1
    /\ edits = <<>>
    /\ count = 0
    /\ importEdit = NoEdit
    /\ result = Null
    /\ pass = 1
    /\ namesToRename = <<>>
    /\ processedNodeIds = {}

\* for (const call of agentCalls): an iteration that continues
UnwrapSkip ==
    /\ script = "unwrap" /\ pc = "loop"
    /\ i <= Len(found)
    /\ UnwrapMatch(root, found[i]) = NoNode
    /\ i' = i + 1
    /\ UNCHANGED <<script, root, found, pc, edits, count, importEdit, result, pass, namesToRename,
                   processedNodeIds>>

\* an iteration that reaches edits.push(toolNodeCall.replace(innerArg.text()))
UnwrapReplace ==
    /\ script = "unwrap" /\ pc = "loop"
    /\ i <= Len(found)
    /\ LET toolNodeCall == UnwrapMatch(root, found[i])
       IN  /\ toolNodeCall # NoNode
           /\ edits' = Append(edits,
                    Replace(root, toolNodeCall,
                            TextOf(root, getSingleArgument(root, toolNodeCall))))
    /\ count' = count + 1
    /\ i' = i + 1
    /\ UNCHANGED <<script, root, found, pc, importEdit, result, pass, namesToRename,
                   processedNodeIds>>

\* if (edits.length === 0) return null
UnwrapUnchanged ==
    /\ script = "unwrap" /\ pc = "loop"
    /\ i > Len(found)
    /\ edits = <<>>
    /\ pc' = "done"
    /\ UNCHANGED <<script, root, found, i, edits, count, importEdit, result, pass, namesToRename,
                   processedNodeIds>>

\* remaining usages, then the import edit
UnwrapPrune ==
    /\ script = "unwrap" /\ pc = "loop"
    /\ i > Len(found)
    /\ edits # <<>>
    /\ LET remainingUsages == countToolNodeUsages(root) - count
           ed == createImportRemovalEdit(root, remainingUsages)
       IN  /\ importEdit' = ed
           /\ edits' = IF ed # NoEdit THEN Append(edits, ed) ELSE edits
    /\ pc' = "commit"
    /\ UNCHANGED <<script, root, found, i, count, result, pass, namesToRename,
                   processedNodeIds>>

\* return rootNode.commitEdits(edits)
Commit ==
    /\ pc = "commit"
    /\ result' = CommitEdits(root, edits)
    /\ pc' = "done"
    /\ UNCHANGED <<script, root, found, i, edits, count, importEdit, pass, namesToRename,
                   processedNodeIds>>

(* Input buffers with agent calls nested in one another's arguments and    *)
(* with imports that bind other names under an alias.                      *)

UnwrapFormKinds == {"agentBare", "nested", "nestedOwn", "callBare", "ref"}

UnwrapFormOrder == <<"agentBare", "nested", "nestedOwn", "callBare", "ref">>

UnwrapFormBodies == StmtSeqs(UnwrapFormKinds, UnwrapFormOrder, MaxStmts)

UnwrapImportKinds == {"none", "sole", "single", "two", "aliasOther", "aliasFirst"}

UnwrapImport(k) ==
    CASE k = "none" -> <<>>
      [] k = "sole" ->
            \* from langgraph.prebuilt import ToolNode
            <<ImportFrom(Dotted2("langgraph", "prebuilt"), <<Name(<<"ToolNode">>)>>, "line"),
              Nl>>
      [] k = "single" ->
            \* from prebuilt import ToolNode
            <<ImportFrom(Name(<<"prebuilt">>), <<Name(<<"ToolNode">>)>>, "line"), Nl>>
      [] k = "two" ->
            \* from langgraph.prebuilt import ToolNode, a
            <<ImportFrom(Dotted2("langgraph", "prebuilt"),
                         <<Name(<<"ToolNode">>), Name(<<"a">>)>>, "line"), Nl>>
      [] k = "aliasOther" ->
            \* from langgraph.prebuilt import ToolNode, create_react_agent as cra
            <<ImportFrom(Dotted2("langgraph", "prebuilt"),
                         <<Name(<<"ToolNode">>), Aliased(<<"create_react_agent">>, "cra")>>,
                         "line"), Nl>>
      [] OTHER ->
            \* from langgraph.prebuilt import create_react_agent as cra, ToolNode
            <<ImportFrom(Dotted2("langgraph", "prebuilt"),
                         <<Aliased(<<"create_react_agent">>, "cra"), Name(<<"ToolNode">>)>>,
                         "line"), Nl>>

UnwrapFormInput(import, body) ==
    Module(UnwrapImport(import) \o Lines([k \in 1..Len(body) |-> UnwrapStmt(body[k])]))

InitUnwrapForms ==
    /\ script = "unwrap"
    /\ \E import \in UnwrapImportKinds, body \in UnwrapFormBodies :
          root = UnwrapFormInput(import, body)
    /\ pc = "loop"
    /\ found = UnwrapCalls(root)
    /\ i = 1
    /\ edits = <<>>
    /\ count = 0
    /\ importEdit = NoEdit
    /\ result = Null
    /\ pass = 1
    /\ namesToRename = <<>>
    /\ processedNodeIds = {}

NextUnwrap == UnwrapSkip \/ UnwrapReplace \/ UnwrapUnchanged \/ UnwrapPrune \/ Commit

SpecUnwrap == InitUnwrap /\ [][NextUnwrap]_vars

SpecUnwrapForms == InitUnwrapForms /\ [][NextUnwrap]_vars

-----------------------------------------------------------------------------
(* Properties of unwrap-tool-node-in-agent *)

\* the import statements of the buffer
ImportStmts(T) == FindAll(T, 1, {n \in Nodes(T) : IsKind(T, n, "import_from_statement")})

InImport(T, n) == \E a \in Range(AncestorsOf(T, n)) : IsKind(T, a, "import_from_statement")

\* the identifiers called name outside import statements
RefsOutsideImports(T, name) ==
    FindAll(T, 1, {n \in Nodes(T) : IsIdent(T, n, name) /\ ~InImport(T, n)})

\* the names an import statement binds: its name fields
BoundNames(T, stmt) ==
    SelectSeq(ChildrenOf(T, stmt), LAMBDA c : T.nodes[c].field = "name")

\* the import statements that bind name
ImportsOf(T, name) ==
    SelectSeq(ImportStmts(T),
              LAMBDA st : \E c \in Range(BoundNames(T, st)) : TextOf(T, c) = name)

PassDone(sc) == script = sc /\ pc = "done" /\ result # Null

\* C1: unwrap-tool-node-in-agent removes ToolNode from its import if and only if
\* the references to ToolNode outside imports (N) minus the calls this pass
\* unwraps (K) is zero; when a reference survives, the import is left intact.
C1_ImportRemovedIffUnused ==
    (PassDone("unwrap") /\ ImportsOf(root, <<"ToolNode">>) # <<>>)
        => ((importEdit # NoEdit)
             <=> (Len(RefsOutsideImports(root, "ToolNode")) - count = 0))

\* the statement a planned import edit lies in, NoNode when there is none
EditedImport(T, ed) ==
    LET sts == SelectSeq(ImportStmts(T),
                    LAMBDA st : StartOf(T, st) <= ed.startPos /\ ed.startPos < EndOf(T, st))
    IN  IF ed = NoEdit \/ sts = <<>> THEN NoNode ELSE sts[1]

\* text of the statement st after edit ed, for an edit inside st
StmtAfter(T, st, ed) ==
    Slice(ApplyEdit(T.text, ed), StartOf(T, st),
          EndOf(T, st) - (ed.endPos - ed.startPos) + Len(ed.insertedText))

\* white space and comments
Layout == {" ", "\n", "# c"}
WithoutLayout(t) == SelectSeq(t, LAMBDA a : a \notin Layout)

Last(t) == t[Len(t)]
Front(t) == SubSeq(t, 1, Len(t) - 1)

\* an edit inside statement st that removes exactly the bound name node c and one
\* comma next to it: apart from white space, the statement loses nothing else
RemovesNameNode(T, st, ed, c) ==
    LET left == WithoutLayout(Slice(T.text, StartOf(T, st), StartOf(T, c)))
        right == WithoutLayout(Slice(T.text, EndOf(T, c), EndOf(T, st)))
        after == WithoutLayout(StmtAfter(T, st, ed))
    IN  /\ StartOf(T, st) <= ed.startPos
        /\ ed.endPos <= EndOf(T, st)
        /\ \/ right # <<>> /\ Head(right) = "," /\ after = left \o Tail(right)
           \/ left # <<>> /\ Last(left) = "," /\ after = Front(left) \o right

\* the bound names of st whose text is exactly name
BoundAs(T, st, name) ==
    SelectSeq(BoundNames(T, st), LAMBDA c : TextOf(T, c) = name)

\* C5: createImportRemovalEdit, multi-name branch: for every position of ToolNode
\* and every layout, the edit removes ToolNode and exactly one adjacent comma, so
\* the list has one comma fewer and the other names are intact.
C5_MultiNameRemovesOneComma ==
    (script = "unwrap" /\ importEdit # NoEdit
        /\ Len(BoundNames(root, EditedImport(root, importEdit))) >= 2)
        => /\ BoundAs(root, EditedImport(root, importEdit), <<"ToolNode">>) # <<>>
           /\ RemovesNameNode(root, EditedImport(root, importEdit), importEdit,
                BoundAs(root, EditedImport(root, importEdit), <<"ToolNode">>)[1])

\* an edit that deletes the whole import statement st
DeletesStatement(T, st, ed) ==
    /\ st # NoNode
    /\ ed.startPos = StartOf(T, st)
    /\ ed.endPos >= EndOf(T, st)
    /\ ed.insertedText = <<>>

\* C8: whole-statement import removal deletes the statement span plus exactly one
\* line terminator when one follows immediately, and nothing beyond it: the edit
\* ends at statement.end or at statement.end + 1.
C8_WholeStatementOneTerminator ==
    DeletesStatement(root, EditedImport(root, importEdit), importEdit)
        => LET stmtEnd == EndOf(root, EditedImport(root, importEdit))
           IN  \/ importEdit.endPos = stmtEnd
               \/ importEdit.endPos = stmtEnd + 1 /\ At(root.text, stmtEnd) = "\n"

-----------------------------------------------------------------------------
(* system-message-to-prompt *)

\* text.endsWith(suffix)
EndsWith(t, suffix) ==
    Len(t) >= Len(suffix) /\ Slice(t, Len(t) - Len(suffix), Len(t)) = suffix

LangchainMessageModules ==
    {<<"langchain", ".", "messages">>,
     <<"langchain", "_core", ".", "messages">>,
     <<"langchain", ".", "core", ".", "messages">>}

\* the test both import searches make on the text of an import statement
IsLangchainMessagesImport(T, imp) ==
    \E m \in LangchainMessageModules : Includes(TextOf(T, imp), m)

hasLangchainSystemMessageImport(T) ==
    \E imp \in Range(FindAll(T, 1, {n \in Nodes(T) : IsKind(T, n, "import_from_statement")})) :
        /\ IsLangchainMessagesImport(T, imp)
        /\ Includes(TextOf(T, imp), <<"SystemMessage">>)

\* the value of the first content= keyword found under the call's argument list
findSystemMessageContentArg(T, callNode) ==
    LET funcNode == FieldOf(T, callNode, "function")
        argList == FieldOf(T, callNode, "arguments")
        keywordArgs == FindAll(T, argList, {n \in Nodes(T) : IsKind(T, n, "keyword_argument")})
        ok == SelectSeq(keywordArgs,
                LAMBDA kwarg :
                    /\ FieldOf(T, kwarg, "name") # NoNode
                    /\ TextOf(T, FieldOf(T, kwarg, "name")) = <<"content">>
                    /\ FieldOf(T, kwarg, "value") # NoNode)
    IN  IF funcNode = NoNode THEN NoNode
        ELSE IF /\ TextOf(T, funcNode) # <<"SystemMessage">>
                /\ ~EndsWith(TextOf(T, funcNode), <<".", "SystemMessage">>) THEN NoNode
        ELSE IF argList = NoNode \/ ok = <<>> THEN NoNode
        ELSE FieldOf(T, ok[1], "value")

\* the targets one agent call contributes, in the order of its keyword arguments
TargetsOfCall(T, agentCall) ==
    LET argList == FieldOf(T, agentCall, "arguments")
        keywordArgs == FindAll(T, argList, {n \in Nodes(T) : IsKind(T, n, "keyword_argument")})
        ok == SelectSeq(keywordArgs,
                LAMBDA kwarg :
                    LET nameNode == FieldOf(T, kwarg, "name")
                        valueNode == FieldOf(T, kwarg, "value")
                    IN  /\ nameNode # NoNode
                        /\ TextOf(T, nameNode) \in {<<"prompt">>, <<"system_prompt">>}
                        /\ valueNode # NoNode
                        /\ IsKind(T, valueNode, "call")
                        /\ findSystemMessageContentArg(T, valueNode) # NoNode)
    IN  IF argList = NoNode THEN <<>>
        ELSE [k \in 1..Len(ok) |->
                [keywordArg        |-> ok[k],
                 keywordName       |-> FieldOf(T, ok[k], "name"),
                 systemMessageCall |-> FieldOf(T, ok[k], "value"),
                 contentExpr       |-> findSystemMessageContentArg(T, FieldOf(T, ok[k], "value")),
                 needsRename       |-> TextOf(T, FieldOf(T, ok[k], "name")) = <<"prompt">>]]

findTransformTargets(T) ==
    LET agentCalls ==
            FindAll(T, 1,
                {n \in Nodes(T) :
                    /\ IsKind(T, n, "call")
                    /\ HasChild(T, n,
                          {c \in Nodes(T) :
                              /\ T.nodes[c].field = "function"
                              /\ IsKind(T, c, "identifier")
                              /\ TextOf(T, c) \in {<<"create_agent">>, <<"create_react_agent">>}})})
    IN  IF ~hasLangchainSystemMessageImport(T) THEN <<>>
        ELSE FlattenSeq([k \in 1..Len(agentCalls) |-> TargetsOfCall(T, agentCalls[k])])

\* ref.ancestors().find(n => n.kind() === "call"): the innermost enclosing call
ParentCall(T, ref) ==
    LET cs == SelectSeq(AncestorsOf(T, ref), LAMBDA n : IsKind(T, n, "call"))
    IN  IF cs = <<>> THEN NoNode ELSE cs[1]

isSystemMessageUsedElsewhere(T, transformedCalls) ==
    \E ref \in Range(FindAll(T, 1, {n \in Nodes(T) : IsIdent(T, n, "SystemMessage")})) :
        /\ ~(\E a \in Range(AncestorsOf(T, ref)) : IsKind(T, a, "import_from_statement"))
        /\ ~(ParentCall(T, ref) # NoNode /\ ParentCall(T, ref) \in transformedCalls)

\* importStmt (NoNode when none) and otherImportsExist
findSystemMessageImport(T) ==
    LET imports == FindAll(T, 1, {n \in Nodes(T) : IsKind(T, n, "import_from_statement")})
        ok == SelectSeq(imports,
                LAMBDA imp : /\ IsLangchainMessagesImport(T, imp)
                             /\ Includes(TextOf(T, imp), <<"SystemMessage">>))
        dottedNames == FindAll(T, ok[1], {n \in Nodes(T) : IsKind(T, n, "dotted_name")})
    IN  IF ok = <<>> THEN [importStmt |-> NoNode, otherImportsExist |-> FALSE]
        ELSE [importStmt |-> ok[1],
              otherImportsExist |->
                  \E k \in 2..Len(dottedNames) :
                      TextOf(T, dottedNames[k]) # <<"SystemMessage">>]

IsSpace(a) == a \in {" ", "\n"}

\* offset of the first atom at or after k that \s does not match
RECURSIVE SkipWhite(_, _)
SkipWhite(t, k) == IF k < Len(t) /\ IsSpace(At(t, k)) THEN SkipWhite(t, k + 1) ELSE k

\* t.replace(/SystemMessage,\s*/, ""): t itself when nothing matches
ReplaceNameComma(t) ==
    LET hits == {k \in Occurrences(t, <<"SystemMessage", ",">>) : TRUE}
    IN  IF hits = {} THEN t
        ELSE Slice(t, 0, Min(hits)) \o Slice(t, SkipWhite(t, Min(hits) + 2), Len(t))

\* t.replace(/,\s*SystemMessage/, "")
ReplaceCommaName(t) ==
    LET hits == {k \in Occurrences(t, <<",">>) :
                    At(t, SkipWhite(t, k + 1)) = "SystemMessage"}
    IN  IF hits = {} THEN t
        ELSE Slice(t, 0, Min(hits)) \o Slice(t, SkipWhite(t, Min(hits) + 1) + 1, Len(t))

\* t.replace(/SystemMessage/, "")
ReplaceName(t) ==
    LET hits == Occurrences(t, <<"SystemMessage">>)
    IN  IF hits = {} THEN t
        ELSE Slice(t, 0, Min(hits)) \o Slice(t, Min(hits) + 1, Len(t))

\* the new text of a statement that keeps other names
StripSystemMessage(importText) ==
    IF ReplaceNameComma(importText) # importText THEN ReplaceNameComma(importText)
    ELSE IF ReplaceCommaName(importText) # importText THEN ReplaceCommaName(importText)
    ELSE ReplaceName(importText)

\* end of a removed statement: the line terminator that ends its line, if present
StatementEndWithNewline(T, stmt) ==
    IF EndOf(T, stmt) < Len(T.text) /\ At(T.text, EndOf(T, stmt)) = "\n"
    THEN EndOf(T, stmt) + 1
    ELSE EndOf(T, stmt)

buildImportEdit(T, importStmt, otherImportsExist) ==
    IF ~otherImportsExist
    THEN MkEdit(StartOf(T, importStmt), StatementEndWithNewline(T, importStmt), <<>>)
    ELSE IF StripSystemMessage(TextOf(T, importStmt)) = TextOf(T, importStmt) THEN NoEdit
    ELSE MkEdit(StartOf(T, importStmt), EndOf(T, importStmt),
                StripSystemMessage(TextOf(T, importStmt)))

\* the edit the loop over targets pushes for one target
TargetEdit(T, target) ==
    IF target.needsRename
    THEN Replace(T, target.keywordArg,
                 <<"system_prompt", "=">> \o TextOf(T, target.contentExpr))
    ELSE Replace(T, target.systemMessageCall, TextOf(T, target.contentExpr))

\* transformedCallIds once the loop over targets has ended
TransformedCallIds(targets) == {targets[k].systemMessageCall : k \in DOMAIN targets}

\* the import edit transform() plans after the loop
SysMsgImportEdit(T, targets) ==
    IF isSystemMessageUsedElsewhere(T, TransformedCallIds(targets)) THEN NoEdit
    ELSE IF findSystemMessageImport(T).importStmt = NoNode THEN NoEdit
    ELSE buildImportEdit(T, findSystemMessageImport(T).importStmt,
                         findSystemMessageImport(T).otherImportsExist)

(* Input buffers of system-message-to-prompt: an import of SystemMessage   *)
(* from a langchain messages module, then statements that use it.          *)

SysMsgStmtKinds ==
    {"promptVar", "sysPromptVar", "contentRef", "contentCall", "positional",
     "nestedContent", "both", "use"}

SysMsgKindOrder ==
    <<"promptVar", "sysPromptVar", "contentRef", "contentCall", "positional",
      "nestedContent", "both", "use">>

SysMsgStmt(k) ==
    CASE k = "promptVar" ->
            \* create_agent(prompt=SystemMessage(content=x))
            ExprStmt(Call(Id("create_agent"),
                <<Kw("prompt", Call(Id("SystemMessage"), <<Kw("content", Id("x"))>>))>>))
      [] k = "sysPromptVar" ->
            \* create_react_agent(system_prompt=SystemMessage(content=x))
            ExprStmt(Call(Id("create_react_agent"),
                <<Kw("system_prompt",
                     Call(Id("SystemMessage"), <<Kw("content", Id("x"))>>))>>))
      [] k = "contentRef" ->
            \* create_agent(prompt=SystemMessage(content=SystemMessage.doc))
            ExprStmt(Call(Id("create_agent"),
                <<Kw("prompt",
                     Call(Id("SystemMessage"),
                          <<Kw("content", Attr(Id("SystemMessage"), "doc"))>>))>>))
      [] k = "contentCall" ->
            \* create_agent(prompt=SystemMessage(content=SystemMessage(x)))
            ExprStmt(Call(Id("create_agent"),
                <<Kw("prompt",
                     Call(Id("SystemMessage"),
                          <<Kw("content", Call(Id("SystemMessage"), <<Id("x")>>))>>))>>))
      [] k = "positional" ->
            \* create_agent(prompt=SystemMessage(x))
            ExprStmt(Call(Id("create_agent"),
                <<Kw("prompt", Call(Id("SystemMessage"), <<Id("x")>>))>>))
      [] k = "nestedContent" ->
            \* create_agent(prompt=SystemMessage(f(content=x)))
            ExprStmt(Call(Id("create_agent"),
                <<Kw("prompt",
                     Call(Id("SystemMessage"),
                          <<Call(Id("f"), <<Kw("content", Id("x"))>>)>>))>>))
      [] k = "both" ->
            \* create_agent(prompt=SystemMessage(content=x), system_prompt=s)
            ExprStmt(Call(Id("create_agent"),
                CommaSep(<<Kw("prompt", Call(Id("SystemMessage"), <<Kw("content", Id("x"))>>)),
                           Kw("system_prompt", Id("s"))>>)))
      [] OTHER ->
            \* SystemMessage(content=x)
            ExprStmt(Call(Id("SystemMessage"), <<Kw("content", Id("x"))>>))

\* other names of the import list: plain ones, or one that contains SystemMessage
NameFlavors == {"plain", "prefixed", "suffixed"}

FlavoredNames(fl) ==
    CASE fl = "prefixed" -> <<<<"My", "SystemMessage">>, <<"b">>, <<"c">>>>
      [] fl = "suffixed" -> <<<<"a">>, <<"SystemMessage", "Chunk">>, <<"c">>>>
      [] OTHER           -> OtherNames

FlavoredNamesWith(target, n, p, fl) ==
    [k \in 1..n |-> IF k = p THEN Name(target)
                    ELSE Name(FlavoredNames(fl)[IF k < p THEN k ELSE k - 1])]

SysMsgModules ==
    {Dotted2("langchain", "messages"),
     Wrap("dotted_name",
          CatAll(<<Leaf("identifier", <<"langchain", "_core">>), Tok("."), Id("messages")>>))}

SysMsgBodies == StmtSeqs(SysMsgStmtKinds, SysMsgKindOrder, MaxStmts)

\* the buffer: the import, gap line terminators, the statements
SysMsgInput(module, shape, flavor, gap, body) ==
    Module(<<ImportFrom(module,
                        FlavoredNamesWith(<<"SystemMessage">>, shape[1], shape[2], flavor),
                        shape[3])>>
           \o [k \in 1..gap |-> Nl]
           \o Lines([k \in 1..Len(body) |-> SysMsgStmt(body[k])]))

InitSysMsg ==
    /\ script = "sysmsg"
    /\ \E module \in SysMsgModules, shape \in ListShapes, flavor \in NameFlavors,
          gap \in Gaps, body \in SysMsgBodies :
          /\ flavor # "plain" => shape[1] >= 2 /\ shape[3] = "line"
          /\ module # Dotted2("langchain", "messages")
                => flavor = "plain" /\ shape[3] = "line" /\ gap = 1
          /\ root = SysMsgInput(module, shape, flavor, gap, body)
    /\ pc = "loop"
    /\ found = findTransformTargets(root)
    /\ i = 1
    /\ edits = <<>>
    /\ count = 0
    /\ importEdit = NoEdit
    /\ result = Null
    /\ pass = 1
    /\ namesToRename = <<>>
    /\ processedNodeIds = {}

\* if (targets.length === 0) return null
SysMsgUnchanged ==
    /\ script = "sysmsg" /\ pc = "loop"
    /\ found = <<>>
    /\ pc' = "done"
    /\ UNCHANGED <<script, root, found, i, edits, count, importEdit, result, pass, namesToRename,
                   processedNodeIds>>

\* for (const target of targets): one iteration
SysMsgTarget ==
    /\ script = "sysmsg" /\ pc = "loop"
    /\ i <= Len(found)
    /\ edits' = Append(edits, TargetEdit(root, found[i]))
    /\ count' = count + 1
    /\ i' = i + 1
    /\ UNCHANGED <<script, root, found, pc, importEdit, result, pass, namesToRename,
                   processedNodeIds>>

\* the import edit, once the loop has ended
SysMsgPrune ==
    /\ script = "sysmsg" /\ pc = "loop"
    /\ found # <<>>
    /\ i > Len(found)
    /\ importEdit' = SysMsgImportEdit(root, found)
    /\ edits' = IF SysMsgImportEdit(root, found) # NoEdit
                THEN Append(edits, SysMsgImportEdit(root, found))
                ELSE edits
    /\ pc' = "commit"
    /\ UNCHANGED <<script, root, found, i, count, result, pass, namesToRename,
                   processedNodeIds>>

NextSysMsg == SysMsgUnchanged \/ SysMsgTarget \/ SysMsgPrune \/ Commit

SpecSysMsg == InitSysMsg /\ [][NextSysMsg]_vars

-----------------------------------------------------------------------------
(* Properties of system-message-to-prompt *)

Within(T, n, m) == StartOf(T, m) <= StartOf(T, n) /\ EndOf(T, n) <= EndOf(T, m)

\* the node a target's edit replaces
ReplacedNode(target) ==
    IF target.needsRename THEN target.keywordArg ELSE target.systemMessageCall

\* a reference whose text is in the output: no target's edit deletes it, or the
\* edit puts it back as part of the content expression it preserves
SurvivesTargets(T, targets, ref) ==
    \A k \in DOMAIN targets :
        \/ ~Within(T, ref, ReplacedNode(targets[k]))
        \/ Within(T, ref, targets[k].contentExpr)

\* C2: system-message-to-prompt removes SystemMessage from its import only if no
\* SystemMessage identifier outside import statements survives in the output:
\* every reference discounted as transformed is deleted by an edit.
C2_PrunedOnlyIfNoRefSurvives ==
    (PassDone("sysmsg") /\ importEdit # NoEdit)
        => \A ref \in Range(RefsOutsideImports(root, "SystemMessage")) :
              ~SurvivesTargets(root, found, ref)

\* C7: buildImportEdit: when other symbols are imported alongside SystemMessage,
\* the replacement is the statement without the SystemMessage element and one
\* separator; every other imported name is unchanged.
C7_OnlySystemMessageRemoved ==
    (script = "sysmsg" /\ importEdit # NoEdit
        /\ Len(BoundNames(root, EditedImport(root, importEdit))) >= 2)
        => /\ BoundAs(root, EditedImport(root, importEdit), <<"SystemMessage">>) # <<>>
           /\ RemovesNameNode(root, EditedImport(root, importEdit), importEdit,
                BoundAs(root, EditedImport(root, importEdit), <<"SystemMessage">>)[1])

-----------------------------------------------------------------------------
(* bind-tools-return-type *)

\* the BaseMessage identifier one iteration of the loop over bindToolsFunctions
\* replaces, NoNode when the iteration continues
BindMatch(T, funcNode) ==
    LET runnableType ==
            Find(T, funcNode,
                 {n \in Nodes(T) :
                    /\ IsKind(T, n, "generic_type")
                    /\ HasChild(T, n, {c \in Nodes(T) : IsIdent(T, c, "Runnable")})})
        typeParam == Find(T, runnableType, {n \in Nodes(T) : IsKind(T, n, "type_parameter")})
        typeChildren == FindAll(T, typeParam, {n \in Nodes(T) : IsKind(T, n, "type")})
    IN  IF runnableType = NoNode THEN NoNode
        ELSE IF typeParam = NoNode THEN NoNode
        ELSE IF Len(typeChildren) < 2 THEN NoNode
        ELSE Find(T, typeChildren[2], {n \in Nodes(T) : IsIdent(T, n, "BaseMessage")})

\* const bindToolsFunctions = rootNode.findAll(...)
bindToolsFunctions(T) ==
    FindAll(T, 1,
        {n \in Nodes(T) :
            /\ IsKind(T, n, "function_definition")
            /\ HasChild(T, n, {c \in Nodes(T) : /\ T.nodes[c].field = "name"
                                                /\ IsIdent(T, c, "bind_tools")})})

checkHasImport(T, name) ==
    FindAll(T, 1,
        {n \in Nodes(T) :
            /\ IsKind(T, n, "import_from_statement")
            /\ HasChild(T, n,
                  {d \in Nodes(T) :
                      /\ IsKind(T, d, "dotted_name")
                      /\ HasChild(T, d, {c \in Nodes(T) : IsIdent(T, c, name)})})}) # <<>>

\* statement and nameNode of the first dotted_name whose text is BaseMessage;
\* statement = NoNode stands for null
findBaseMessageImport(T) ==
    LET importStatements ==
            FindAll(T, 1, {n \in Nodes(T) : IsKind(T, n, "import_from_statement")})
        hits == FlattenSeq(
                    [k \in 1..Len(importStatements) |->
                        LET allDottedNames ==
                                FindAll(T, importStatements[k],
                                        {n \in Nodes(T) : IsKind(T, n, "dotted_name")})
                            ok == SelectSeq(allDottedNames,
                                      LAMBDA n : TextOf(T, n) = <<"BaseMessage">>)
                        IN  [m \in 1..Len(ok) |->
                                [statement |-> importStatements[k], nameNode |-> ok[m]]]])
    IN  IF hits = <<>> THEN [statement |-> NoNode, nameNode |-> NoNode] ELSE hits[1]

\* the dotted names of a statement that hold no dot
NamesWithoutDot(T, stmt) ==
    SelectSeq(FindAll(T, stmt, {n \in Nodes(T) : IsKind(T, n, "dotted_name")}),
              LAMBDA n : ~Includes(TextOf(T, n), <<".">>))

createAIMessageImportEdit(T, baseMessageImport) ==
    LET messageImports ==
            FindAll(T, 1, {n \in Nodes(T) : IsKind(T, n, "import_from_statement")})
        extendable ==
            SelectSeq(messageImports,
                LAMBDA stmt :
                    /\ \E n \in Range(FindAll(T, stmt,
                                        {d \in Nodes(T) : IsKind(T, d, "dotted_name")})) :
                          /\ Includes(TextOf(T, n), <<"langchain">>)
                          /\ Includes(TextOf(T, n), <<"messages">>)
                    /\ NamesWithoutDot(T, stmt) # <<>>)
        allImports ==
            FindAll(T, 1, {n \in Nodes(T) : \/ IsKind(T, n, "import_statement")
                                            \/ IsKind(T, n, "import_from_statement")})
    IN  IF baseMessageImport.statement # NoNode
        THEN MkEdit(EndOf(T, baseMessageImport.nameNode), EndOf(T, baseMessageImport.nameNode),
                    <<",", " ", "AIMessage">>)
        ELSE IF extendable # <<>>
        THEN MkEdit(EndOf(T, Last(NamesWithoutDot(T, extendable[1]))),
                    EndOf(T, Last(NamesWithoutDot(T, extendable[1]))),
                    <<",", " ", "AIMessage">>)
        ELSE IF allImports # <<>>
        THEN MkEdit(EndOf(T, Last(allImports)), EndOf(T, Last(allImports)),
                    <<"\n", "from", " ", "langchain", "_core", ".", "messages", " ",
                      "import", " ", "AIMessage">>)
        ELSE MkEdit(0, 0,
                    <<"from", " ", "langchain", "_core", ".", "messages", " ",
                      "import", " ", "AIMessage", "\n", "\n">>)

\* the span the multi-name branch removes: the name with ", " or "," and spaces
\* after it, else with ", " or "," right before it, else the name alone
BaseMessageWithComma(T, nameNode) ==
    LET source == T.text
        startPos == StartOf(T, nameNode)
        endPos == EndOf(T, nameNode)
    IN  IF Substring(source, endPos, endPos + 2) = <<",", " ">>
        THEN MkEdit(startPos, endPos + 2, <<>>)
        ELSE IF At(source, endPos) = ","
        THEN MkEdit(startPos, SkipSpaces(source, endPos + 1), <<>>)
        ELSE IF Substring(source, startPos - 2, startPos) = <<",", " ">>
        THEN MkEdit(startPos - 2, endPos, <<>>)
        ELSE IF At(source, startPos - 1) = ","
        THEN MkEdit(startPos - 1, endPos, <<>>)
        ELSE MkEdit(startPos, endPos, <<>>)

createRemoveBaseMessageImportEdit(T, baseMessageImport) ==
    IF Len(NamesWithoutDot(T, baseMessageImport.statement)) = 1
    THEN MkEdit(StartOf(T, baseMessageImport.statement),
                IF At(T.text, EndOf(T, baseMessageImport.statement)) = "\n"
                THEN EndOf(T, baseMessageImport.statement) + 1
                ELSE EndOf(T, baseMessageImport.statement),
                <<>>)
    ELSE BaseMessageWithComma(T, baseMessageImport.nameNode)

\* nonImportUsages.length > bindToolsCount
hasOtherBaseMessageUsages(T, bindToolsCount) ==
    Len(SelectSeq(FindAll(T, 1, {n \in Nodes(T) : IsIdent(T, n, "BaseMessage")}),
                  LAMBDA n : ~(\E a \in Range(AncestorsOf(T, n)) :
                                    IsKind(T, a, "import_from_statement"))))
        > bindToolsCount

\* the import edits transform() plans after the loop: add is the edit that
\* brings AIMessage in, base the edit on the imported name BaseMessage
BindImportEdits(T, bindToolsCount) ==
    LET hasAIMessageImport == checkHasImport(T, "AIMessage")
        baseMessageImport == findBaseMessageImport(T)
        hasOther == hasOtherBaseMessageUsages(T, bindToolsCount)
    IN  IF baseMessageImport.statement # NoNode /\ ~hasOther /\ ~hasAIMessageImport
        THEN [add  |-> NoEdit,
              base |-> Replace(T, baseMessageImport.nameNode, <<"AIMessage">>)]
        ELSE [add  |-> IF ~hasAIMessageImport
                       THEN createAIMessageImportEdit(T, baseMessageImport)
                       ELSE NoEdit,
              base |-> IF baseMessageImport.statement # NoNode /\ ~hasOther
                       THEN createRemoveBaseMessageImportEdit(T, baseMessageImport)
                       ELSE NoEdit]

(* Input buffers of bind-tools-return-type: an import of BaseMessage from  *)
(* langchain_core.messages, AIMessage imported or not, then function       *)
(* definitions.                                                            *)

LangchainCoreMessages ==
    Wrap("dotted_name",
         CatAll(<<Leaf("identifier", <<"langchain", "_core">>), Tok("."), Id("messages")>>))

\* a type annotation
Type(e) == Wrap("type", e)

\* base[args]
GenericType(base, args) ==
    Wrap("generic_type",
         Cat(Id(base),
             Wrap("type_parameter",
                  CatAll(<<Tok("[")>> \o CommaSep([k \in 1..Len(args) |-> Type(args[k])])
                         \o <<Tok("]")>>))))

\* name: type
TypedParameter(name, ty) ==
    Wrap("typed_parameter", CatAll(<<Id(name), Tok(":"), Sp, InField("type", Type(ty))>>))

Parameters(items) ==
    Wrap("parameters", CatAll(<<Tok("(")>> \o CommaSep(items) \o <<Tok(")")>>))

\* def name(params) -> ret: ...   (no arrow when ret is empty)
FunctionDefinition(name, params, ret) ==
    Wrap("function_definition",
         CatAll(<<Tok("def"), Sp, InField("name", Id(name)),
                  InField("parameters", Parameters(params))>>
                \o (IF ret = <<>> THEN <<>>
                    ELSE <<Sp, Tok("->"), Sp, InField("return_type", Type(ret[1]))>>)
                \o <<Tok(":"), Sp,
                     InField("body", Wrap("block", ExprStmt(Leaf("ellipsis", <<"...">>))))>>))

BindStmtKinds == {"ret", "retBoth", "param", "bare", "other"}

BindKindOrder == <<"ret", "retBoth", "param", "bare", "other">>

BindStmt(k) ==
    CASE k = "ret" ->
            \* def bind_tools(self) -> Runnable[X, BaseMessage]: ...
            FunctionDefinition("bind_tools", <<Id("self")>>,
                <<GenericType("Runnable", <<Id("X"), Id("BaseMessage")>>)>>)
      [] k = "retBoth" ->
            \* def bind_tools(self) -> Runnable[BaseMessage, BaseMessage]: ...
            FunctionDefinition("bind_tools", <<Id("self")>>,
                <<GenericType("Runnable", <<Id("BaseMessage"), Id("BaseMessage")>>)>>)
      [] k = "param" ->
            \* def bind_tools(self, m: BaseMessage): ...
            FunctionDefinition("bind_tools",
                <<Id("self"), TypedParameter("m", Id("BaseMessage"))>>, <<>>)
      [] k = "bare" ->
            \* def bind_tools(self): ...
            FunctionDefinition("bind_tools", <<Id("self")>>, <<>>)
      [] k = "paramRunnable" ->
            \* def bind_tools(self, r: Runnable[X, BaseMessage]) -> Runnable[X, BaseMessage]: ...
            FunctionDefinition("bind_tools",
                <<Id("self"),
                  TypedParameter("r", GenericType("Runnable", <<Id("X"), Id("BaseMessage")>>))>>,
                <<GenericType("Runnable", <<Id("X"), Id("BaseMessage")>>)>>)
      [] k = "paramOnly" ->
            \* def bind_tools(self, r: Runnable[X, BaseMessage]): ...
            FunctionDefinition("bind_tools",
                <<Id("self"),
                  TypedParameter("r", GenericType("Runnable", <<Id("X"), Id("BaseMessage")>>))>>,
                <<>>)
      [] k = "firstArg" ->
            \* def bind_tools(self) -> Runnable[List[BaseMessage], Y]: ...
            FunctionDefinition("bind_tools", <<Id("self")>>,
                <<GenericType("Runnable",
                              <<GenericType("List", <<Id("BaseMessage")>>), Id("Y")>>)>>)
      [] OTHER ->
            \* def invoke(self, m: BaseMessage): ...
            FunctionDefinition("invoke",
                <<Id("self"), TypedParameter("m", Id("BaseMessage"))>>, <<>>)

\* how AIMessage is imported: not at all, in the list of the BaseMessage import,
\* or by a statement of its own
AIMessagePlacements == {"none", "listed", "separate"}

BindNames(n, p, placement) ==
    [k \in 1..n |->
        IF k = p THEN Name(<<"BaseMessage">>)
        ELSE IF placement = "listed" /\ (IF k < p THEN k ELSE k - 1) = 1
        THEN Name(<<"AIMessage">>)
        ELSE Name(OtherNames[IF k < p THEN k ELSE k - 1])]

BindBodies == StmtSeqs(BindStmtKinds, BindKindOrder, MaxStmts)

\* the buffer: the BaseMessage import (none when gap = 0), gap line terminators,
\* the AIMessage import when it is separate, the definitions
BindInput(shape, placement, gap, body) ==
    Module((IF gap = 0 THEN <<>>
            ELSE <<ImportFrom(LangchainCoreMessages,
                              BindNames(shape[1], shape[2], placement), shape[3])>>
                 \o [k \in 1..gap |-> Nl])
           \o (IF placement = "separate"
               THEN <<ImportFrom(LangchainCoreMessages, <<Name(<<"AIMessage">>)>>, "line"), Nl>>
               ELSE <<>>)
           \o Lines([k \in 1..Len(body) |-> BindStmt(body[k])]))

InitBindTools ==
    /\ script = "bindtools"
    /\ \E shape \in ListShapes, placement \in AIMessagePlacements,
          gap \in Gaps \cup {0}, body \in BindBodies :
          /\ gap = 0 => shape = <<1, 1, "line">> /\ placement # "listed"
          /\ gap = 2 => shape[1] = 1
          /\ placement = "listed" => shape[1] >= 2
          /\ placement = "separate" => shape[1] <= 2 /\ shape[3] = "line"
          /\ root = BindInput(shape, placement, gap, body)
    /\ pc = "loop"
    /\ found = bindToolsFunctions(root)
    /\ i = 1
    /\ edits = <<>>
    /\ count = 0
    /\ importEdit = NoEdit
    /\ result = Null
    /\ pass = 1
    /\ namesToRename = <<>>
    /\ processedNodeIds = {}

\* for (const funcNode of bindToolsFunctions): an iteration that continues
BindSkip ==
    /\ script = "bindtools" /\ pc = "loop"
    /\ i <= Len(found)
    /\ BindMatch(root, found[i]) = NoNode
    /\ i' = i + 1
    /\ UNCHANGED <<script, root, found, pc, edits, count, importEdit, result, pass, namesToRename,
                   processedNodeIds>>

\* an iteration that reaches edits.push(baseMessageNode.replace("AIMessage"));
\* count = 1 stands for madeReturnTypeChanges = true
BindReplace ==
    /\ script = "bindtools" /\ pc = "loop"
    /\ i <= Len(found)
    /\ BindMatch(root, found[i]) # NoNode
    /\ edits' = Append(edits, Replace(root, BindMatch(root, found[i]), <<"AIMessage">>))
    /\ count' = 1
    /\ i' = i + 1
    /\ UNCHANGED <<script, root, found, pc, importEdit, result, pass, namesToRename,
                   processedNodeIds>>

\* if (!madeReturnTypeChanges) return null
BindUnchanged ==
    /\ script = "bindtools" /\ pc = "loop"
    /\ i > Len(found)
    /\ count = 0
    /\ pc' = "done"
    /\ UNCHANGED <<script, root, found, i, edits, count, importEdit, result, pass, namesToRename,
                   processedNodeIds>>

\* the import edits, once the loop has ended
BindImports ==
    /\ script = "bindtools" /\ pc = "loop"
    /\ i > Len(found)
    /\ count # 0
    /\ LET planned == BindImportEdits(root, Len(found))
       IN  /\ importEdit' = planned.base
           /\ edits' = edits
                \o (IF planned.add # NoEdit THEN <<planned.add>> ELSE <<>>)
                \o (IF planned.base # NoEdit THEN <<planned.base>> ELSE <<>>)
    /\ pc' = "commit"
    /\ UNCHANGED <<script, root, found, i, count, result, pass, namesToRename,
                   processedNodeIds>>

(* Input buffers whose annotations hold Runnable[...] in other places than  *)
(* the return type, or BaseMessage in other places than the output type,   *)
(* and whose imports bind names under an alias.                            *)

BindAnnotationKinds == {"ret", "paramRunnable", "paramOnly", "firstArg", "bare", "other"}

BindAnnotationOrder == <<"ret", "paramRunnable", "paramOnly", "firstArg", "bare", "other">>

BindAnnotationBodies == StmtSeqs(BindAnnotationKinds, BindAnnotationOrder, MaxStmts)

BindImportKinds ==
    {"none", "base", "baseAI", "both", "single", "aliasOther", "aliasSelf", "baseAlias"}

BindImport(k) ==
    CASE k = "none" -> <<>>
      [] k = "base" ->
            \* from langchain_core.messages import BaseMessage
            <<ImportFrom(LangchainCoreMessages, <<Name(<<"BaseMessage">>)>>, "line"), Nl>>
      [] k = "baseAI" ->
            \* from langchain_core.messages import BaseMessage, AIMessage
            <<ImportFrom(LangchainCoreMessages,
                         <<Name(<<"BaseMessage">>), Name(<<"AIMessage">>)>>, "line"), Nl>>
      [] k = "both" ->
            \* from langchain_core.messages import BaseMessage
            \* from langchain_core.messages import AIMessage
            <<ImportFrom(LangchainCoreMessages, <<Name(<<"BaseMessage">>)>>, "line"), Nl,
              ImportFrom(LangchainCoreMessages, <<Name(<<"AIMessage">>)>>, "line"), Nl>>
      [] k = "single" ->
            \* from messages import BaseMessage
            \* from langchain_core.messages import AIMessage
            <<ImportFrom(Name(<<"messages">>), <<Name(<<"BaseMessage">>)>>, "line"), Nl,
              ImportFrom(LangchainCoreMessages, <<Name(<<"AIMessage">>)>>, "line"), Nl>>
      [] k = "aliasOther" ->
            \* from langchain_core.messages import HumanMessage as H
            <<ImportFrom(LangchainCoreMessages, <<Aliased(<<"HumanMessage">>, "H")>>, "line"),
              Nl>>
      [] k = "aliasSelf" ->
            \* from langchain_core.messages import BaseMessage as BaseMessage
            <<ImportFrom(LangchainCoreMessages,
                         <<Aliased(<<"BaseMessage">>, "BaseMessage")>>, "line"), Nl>>
      [] OTHER ->
            \* from langchain_core.messages import BaseMessage, HumanMessage as H
            <<ImportFrom(LangchainCoreMessages,
                         <<Name(<<"BaseMessage">>), Aliased(<<"HumanMessage">>, "H")>>, "line"),
              Nl>>

BindAnnotationInput(import, body) ==
    Module(BindImport(import) \o Lines([k \in 1..Len(body) |-> BindStmt(body[k])]))

InitBindAnnotations ==
    /\ script = "bindtools"
    /\ \E import \in BindImportKinds, body \in BindAnnotationBodies :
          root = BindAnnotationInput(import, body)
    /\ pc = "loop"
    /\ found = bindToolsFunctions(root)
    /\ i = 1
    /\ edits = <<>>
    /\ count = 0
    /\ importEdit = NoEdit
    /\ result = Null
    /\ pass = 1
    /\ namesToRename = <<>>
    /\ processedNodeIds = {}

NextBindTools == BindSkip \/ BindReplace \/ BindUnchanged \/ BindImports \/ Commit

SpecBindTools == InitBindTools /\ [][NextBindTools]_vars

SpecBindAnnotations == InitBindAnnotations /\ [][NextBindTools]_vars

-----------------------------------------------------------------------------
(* Properties of bind-tools-return-type *)

\* the reference is replaced by one of the planned edits
Rewritten(T, es, ref) ==
    \E k \in DOMAIN es :
        es[k].startPos = StartOf(T, ref) /\ es[k].endPos = EndOf(T, ref)

\* C3: bind-tools-return-type neither removes nor replaces the imported name
\* BaseMessage whenever a BaseMessage identifier outside import statements is
\* not itself replaced by the pass.
C3_ImportKeptWhileUsed ==
    (PassDone("bindtools")
        /\ \E ref \in Range(RefsOutsideImports(root, "BaseMessage")) :
              ~Rewritten(root, edits, ref))
        => importEdit = NoEdit

\* C6: createRemoveBaseMessageImportEdit, multi-name branch: for every position
\* of BaseMessage and every white space around the commas, the edit removes
\* BaseMessage and exactly one adjacent comma.
C6_BaseMessageRemovesOneComma ==
    (script = "bindtools" /\ importEdit # NoEdit /\ importEdit.insertedText = <<>>
        /\ Len(BoundNames(root, EditedImport(root, importEdit))) >= 2)
        => /\ BoundAs(root, EditedImport(root, importEdit), <<"BaseMessage">>) # <<>>
           /\ RemovesNameNode(root, EditedImport(root, importEdit), importEdit,
                BoundAs(root, EditedImport(root, importEdit), <<"BaseMessage">>)[1])

-----------------------------------------------------------------------------
(* aimessage-example-to-kwargs *)

\* the child of a keyword_argument that follows its "=" token, NoNode when none
getKeywordArgumentValue(T, keywordArg) ==
    LET children == ChildrenOf(T, keywordArg)
        eq == {k \in DOMAIN children : TextOf(T, children[k]) = <<"=">>}
    IN  IF eq = {} \/ Min(eq) = Len(children) THEN NoNode
        ELSE children[Min(eq) + 1]

removeArgumentWithComma(T, arg, argList) ==
    LET allChildren == ChildrenOf(T, argList)
        hits == {k \in DOMAIN allChildren : allChildren[k] = arg}
        argIndex == IF hits = {} THEN -1 ELSE Min(hits) - 1
        ChildAt(j) == IF j >= 0 /\ j < Len(allChildren) THEN allChildren[j + 1] ELSE NoNode
        nextChild == ChildAt(argIndex + 1)
        afterComma == ChildAt(argIndex + 2)
        prevChild == ChildAt(argIndex - 1)
    IN  IF nextChild # NoNode /\ TextOf(T, nextChild) = <<",">>
        THEN MkEdit(StartOf(T, arg),
                    IF afterComma # NoNode THEN StartOf(T, afterComma)
                    ELSE EndOf(T, nextChild),
                    <<>>)
        ELSE IF prevChild # NoNode /\ TextOf(T, prevChild) = <<",">>
        THEN MkEdit(StartOf(T, prevChild), EndOf(T, arg), <<>>)
        ELSE MkEdit(StartOf(T, arg), EndOf(T, arg), <<>>)

\* a variant of trim() that removes nothing
TrimNone(t) == t

RECURSIVE TrimStart(_)
TrimStart(t) == IF t # <<>> /\ IsSpace(Head(t)) THEN TrimStart(Tail(t)) ELSE t

RECURSIVE TrimEnd(_)
TrimEnd(t) == IF t # <<>> /\ IsSpace(Last(t)) THEN TrimEnd(Front(t)) ELSE t

\* String.prototype.trim
Trim(t) == TrimEnd(TrimStart(t))

\* "example": V
ExampleEntry(exampleValue) == <<"\"", "example", "\"", ":", " ">> \o exampleValue

\* newDictText of a dict literal without the key
MergedDictText(dictText, exampleValue) ==
    LET dictContent == Trim(Slice(dictText, 1, Len(dictText) - 1))
    IN  IF dictContent = <<>>
        THEN <<"{">> \o ExampleEntry(exampleValue) \o <<"}">>
        ELSE <<"{">> \o ExampleEntry(exampleValue) \o <<",", " ">> \o dictContent \o <<"}">>

\* const calls = rootNode.findAll(...)
AIMessageCalls(T) ==
    FindAll(T, 1,
        {n \in Nodes(T) :
            /\ IsKind(T, n, "call")
            /\ HasChild(T, n, {c \in Nodes(T) : /\ T.nodes[c].field = "function"
                                                /\ IsIdent(T, c, "AIMessage")})})

\* the edits one iteration of the loop over calls pushes, <<>> when it continues
AIMessageEdits(T, call) ==
    LET argList == FieldOf(T, call, "arguments")
        exampleArg ==
            Find(T, argList,
                 {n \in Nodes(T) :
                    /\ IsKind(T, n, "keyword_argument")
                    /\ HasChild(T, n, {c \in Nodes(T) : IsIdent(T, c, "example")})})
        exampleValueNode == getKeywordArgumentValue(T, exampleArg)
        exampleValue == TextOf(T, exampleValueNode)
        additionalKwargsArg ==
            Find(T, argList,
                 {n \in Nodes(T) :
                    /\ IsKind(T, n, "keyword_argument")
                    /\ HasChild(T, n, {c \in Nodes(T) : IsIdent(T, c, "additional_kwargs")})})
        additionalKwargsValue == getKeywordArgumentValue(T, additionalKwargsArg)
        existingExampleKey ==
            Find(T, additionalKwargsValue,
                 {n \in Nodes(T) :
                    /\ IsKind(T, n, "pair")
                    /\ HasChild(T, n,
                          {st \in Nodes(T) :
                              /\ IsKind(T, st, "string")
                              /\ HasChild(T, st,
                                    {c \in Nodes(T) : /\ IsKind(T, c, "string_content")
                                                      /\ TextOf(T, c) = <<"example">>})})})
    IN  IF argList = NoNode THEN <<>>
        ELSE IF exampleArg = NoNode THEN <<>>
        ELSE IF exampleValueNode = NoNode THEN <<>>
        ELSE IF additionalKwargsArg = NoNode
        THEN <<Replace(T, exampleArg,
                       <<"additional_kwargs", "=", "{">> \o ExampleEntry(exampleValue)
                       \o <<"}">>)>>
        ELSE IF additionalKwargsValue = NoNode THEN <<>>
        ELSE IF IsKind(T, additionalKwargsValue, "dictionary")
        THEN IF existingExampleKey # NoNode THEN <<>>
             ELSE <<Replace(T, additionalKwargsValue,
                            MergedDictText(TextOf(T, additionalKwargsValue), exampleValue)),
                    removeArgumentWithComma(T, exampleArg, argList)>>
        ELSE <<Replace(T, additionalKwargsValue,
                       <<"{", "**">> \o TextOf(T, additionalKwargsValue) \o <<",", " ">>
                       \o ExampleEntry(exampleValue) \o <<"}">>),
               removeArgumentWithComma(T, exampleArg, argList)>>

(* Input buffers of aimessage-example-to-kwargs: a call of AIMessage whose *)
(* argument list holds example= and additional_kwargs= at chosen           *)
(* positions, in the layouts found in source files, then an optional       *)
(* second call.                                                            *)

\* "content"
String(content) ==
    Wrap("string",
         CatAll(<<Leaf("string_start", <<"\"">>), Leaf("string_content", <<content>>),
                  Leaf("string_end", <<"\"">>)>>))

\* key: value
Pair(key, value) ==
    Wrap("pair", CatAll(<<InField("key", key), Tok(":"), Sp, InField("value", value)>>))

\* { parts }, parts holding the pairs, the commas and the white space
Dictionary(parts) == Wrap("dictionary", CatAll(<<Tok("{")>> \o parts \o <<Tok("}")>>))

DictKinds == {"var", "empty", "blank", "one", "padded", "lines", "hasKey", "hasKeyLast"}

AdditionalKwargsValue(dk) ==
    CASE dk = "var"    -> Id("kwargs")
      [] dk = "empty"  -> Dictionary(<<>>)
      [] dk = "blank"  -> Dictionary(<<Sp>>)
      [] dk = "one"    -> Dictionary(<<Pair(String("foo"), Leaf("integer", <<"1">>))>>)
      [] dk = "padded" ->
            Dictionary(<<Sp, Pair(String("foo"), Leaf("integer", <<"1">>)), Sp>>)
      [] dk = "lines"  ->
            Dictionary(<<Ws(<<"\n", " ", " ">>),
                         Pair(String("foo"), Leaf("integer", <<"1">>)), Tok(","),
                         Ws(<<"\n", " ", " ">>),
                         Pair(String("bar"), Leaf("integer", <<"2">>)), Tok(","), Nl>>)
      [] dk = "hasKey" -> Dictionary(<<Pair(String("example"), Leaf("false", <<"False">>))>>)
      [] OTHER ->
            Dictionary(<<Pair(String("foo"), Leaf("integer", <<"1">>)), Tok(","), Sp,
                         Pair(String("example"), Leaf("false", <<"False">>))>>)

ArgLayouts == {"line", "tight", "spaced", "multi", "commented"}

ArgBeforeComma(l) == IF l = "spaced" THEN <<Sp>> ELSE <<>>
ArgAfterComma(l) ==
    CASE l = "line"   -> <<Sp>>
      [] l = "tight"  -> <<>>
      [] l = "spaced" -> <<Sp>>
      [] l = "multi"  -> <<Ws(<<"\n", " ", " ">>)>>
      [] OTHER        -> <<Ws(<<"\n", " ", " ">>), Leaf("comment", <<"# c">>),
                           Ws(<<"\n", " ", " ">>)>>
ArgOpen(l) == IF l \in {"multi", "commented"} THEN <<Ws(<<"\n", " ", " ">>)>> ELSE <<>>
ArgClose(l) == IF l \in {"multi", "commented"} THEN <<Nl>> ELSE <<>>

RECURSIVE ArgItems(_, _, _)
ArgItems(args, l, trailing) ==
    IF Len(args) = 1
    THEN <<Head(args)>> \o (IF trailing THEN <<Tok(",")>> ELSE <<>>)
    ELSE <<Head(args)>> \o ArgBeforeComma(l) \o <<Tok(",")>> \o ArgAfterComma(l)
         \o ArgItems(Tail(args), l, trailing)

MaxArgs == 3

FillerNames == <<"content", "name", "id", "role", "kind">>
FillerFlavors == {"plain", "akRef", "exRef", "nested"}

\* the shapes of an AIMessage call: n arguments, example= at position pe and
\* additional_kwargs= at position pk (0: absent), the value of additional_kwargs,
\* the layout, a comma after the last argument or not, and the other arguments:
\* name=x, name=additional_kwargs, name=example or name=f(example=True)
AIMessageShapes ==
    {d \in [n : 1..MaxArgs, pe : 0..MaxArgs, pk : 0..MaxArgs, dk : DictKinds,
            l : ArgLayouts, trailing : BOOLEAN, flavor : FillerFlavors] :
        /\ d.pe <= d.n /\ d.pk <= d.n
        /\ d.pe = d.pk => d.pe = 0
        /\ d.pk = 0 => d.dk = "var"
        /\ d.n = 1 => d.l = "line" /\ ~d.trailing
        /\ d.flavor # "plain" =>
              /\ d.l = "line" /\ ~d.trailing
              /\ \E k \in 1..d.n : k # d.pe /\ k # d.pk}

AIMessageArgs(d) ==
    [k \in 1..d.n |->
        IF k = d.pe THEN Kw("example", Leaf("true", <<"True">>))
        ELSE IF k = d.pk THEN Kw("additional_kwargs", AdditionalKwargsValue(d.dk))
        ELSE Kw(FillerNames[k],
                CASE d.flavor = "akRef"  -> Id("additional_kwargs")
                  [] d.flavor = "exRef"  -> Id("example")
                  [] d.flavor = "nested" ->
                        Call(Id("f"), <<Kw("example", Leaf("true", <<"True">>))>>)
                  [] OTHER               -> Id("x"))]

AIMessageCall(d) ==
    ExprStmt(Call(Id("AIMessage"),
                  ArgOpen(d.l) \o ArgItems(AIMessageArgs(d), d.l, d.trailing)
                  \o ArgClose(d.l)))

SecondCalls == {"none", "basic", "human"}

SecondCall(k) ==
    CASE k = "basic" ->
            \* AIMessage(example=True)
            <<ExprStmt(Call(Id("AIMessage"), <<Kw("example", Leaf("true", <<"True">>))>>))>>
      [] k = "human" ->
            \* HumanMessage(example=True)
            <<ExprStmt(Call(Id("HumanMessage"),
                            <<Kw("example", Leaf("true", <<"True">>))>>))>>
      [] OTHER -> <<>>

AIMessageInput(d, second) == Module(Lines(<<AIMessageCall(d)>> \o SecondCall(second)))

InitAIMessage ==
    /\ script = "aimessage"
    /\ \E d \in AIMessageShapes, second \in SecondCalls :
          root = AIMessageInput(d, second)
    /\ pc = "loop"
    /\ found = AIMessageCalls(root)
    /\ i = 1
    /\ edits = <<>>
    /\ count = 0
    /\ importEdit = NoEdit
    /\ result = Null
    /\ pass = 1
    /\ namesToRename = <<>>
    /\ processedNodeIds = {}

\* for (const call of calls): an iteration that continues
AIMessageSkip ==
    /\ script = "aimessage" /\ pc = "loop"
    /\ i <= Len(found)
    /\ AIMessageEdits(root, found[i]) = <<>>
    /\ i' = i + 1
    /\ UNCHANGED <<script, root, found, pc, edits, count, importEdit, result, pass, namesToRename,
                   processedNodeIds>>

\* an iteration that pushes its edits
AIMessageRewrite ==
    /\ script = "aimessage" /\ pc = "loop"
    /\ i <= Len(found)
    /\ AIMessageEdits(root, found[i]) # <<>>
    /\ edits' = edits \o AIMessageEdits(root, found[i])
    /\ i' = i + 1
    /\ UNCHANGED <<script, root, found, pc, count, importEdit, result, pass, namesToRename,
                   processedNodeIds>>

\* if (edits.length === 0) return null
AIMessageUnchanged ==
    /\ script = "aimessage" /\ pc = "loop"
    /\ i > Len(found)
    /\ edits = <<>>
    /\ pc' = "done"
    /\ UNCHANGED <<script, root, found, i, edits, count, importEdit, result, pass, namesToRename,
                   processedNodeIds>>

\* return rootNode.commitEdits(edits)
AIMessageCommit ==
    /\ script = "aimessage" /\ pc = "loop"
    /\ i > Len(found)
    /\ edits # <<>>
    /\ result' = CommitEdits(root, edits)
    /\ pc' = "done"
    /\ UNCHANGED <<script, root, found, i, edits, count, importEdit, pass, namesToRename,
                   processedNodeIds>>

NextAIMessage ==
    AIMessageSkip \/ AIMessageRewrite \/ AIMessageUnchanged \/ AIMessageCommit

SpecAIMessage == InitAIMessage /\ [][NextAIMessage]_vars

-----------------------------------------------------------------------------
(* Properties of aimessage-example-to-kwargs *)

\* the arguments of the call: the children of its argument list that are neither
\* punctuation nor comments
ArgsOf(T, call) ==
    SelectSeq(ChildrenOf(T, FieldOf(T, call, "arguments")),
              LAMBDA c : Kind(T, c) \notin {"(", ")", ",", "comment"})

\* the arguments of the call that are name=...
KeywordsNamed(T, call, name) ==
    SelectSeq(ArgsOf(T, call),
              LAMBDA c : /\ IsKind(T, c, "keyword_argument")
                         /\ TextOf(T, FieldOf(T, c, "name")) = <<name>>)

\* the planned edits that lie in the call
EditsIn(T, es, call) ==
    SelectSeq(es, LAMBDA e : StartOf(T, call) <= e.startPos /\ e.endPos <= EndOf(T, call))

\* the planned edits that delete text of the call
RemovalsIn(T, es, call) == SelectSeq(EditsIn(T, es, call), LAMBDA e : e.insertedText = <<>>)

\* no comma right after the opening parenthesis, no two commas in a row
NoStrayComma(t) ==
    /\ ~Includes(t, <<"(", ",">>)
    /\ ~Includes(t, <<",", ",">>)

\* C4: removeArgumentWithComma: for every position of the removed argument and
\* every layout of a list of two or more arguments, the edit removes the argument
\* and exactly one adjacent comma, leaves no leading or doubled comma, and keeps
\* the text of every other argument.
C4_RemovalLeavesOneFewerComma ==
    script = "aimessage" =>
        \A k \in DOMAIN found : \A e \in Range(RemovalsIn(root, edits, found[k])) :
            LET argList == FieldOf(root, found[k], "arguments")
                arg == KeywordsNamed(root, found[k], "example")[1]
                after == StmtAfter(root, argList, e)
            IN  /\ KeywordsNamed(root, found[k], "example") # <<>>
                /\ RemovesNameNode(root, argList, e, arg)
                /\ NoStrayComma(WithoutLayout(after))
                /\ \A a \in Range(ArgsOf(root, found[k])) :
                      a # arg => Includes(after, TextOf(root, a))

\* the dict literals given as additional_kwargs= of the call
AdditionalKwargsDicts(T, call) ==
    SelectSeq([k \in DOMAIN KeywordsNamed(T, call, "additional_kwargs") |->
                  FieldOf(T, KeywordsNamed(T, call, "additional_kwargs")[k], "value")],
              LAMBDA v : IsKind(T, v, "dictionary"))

\* the dict has a top-level pair whose key is the string "example"
HasExampleKey(T, dict) ==
    \E p \in Range(ChildrenOf(T, dict)) :
        /\ IsKind(T, p, "pair")
        /\ IsKind(T, FieldOf(T, p, "key"), "string")
        /\ \E c \in Range(ChildrenOf(T, FieldOf(T, p, "key"))) :
              IsKind(T, c, "string_content") /\ TextOf(T, c) = <<"example">>

\* C9: for every AIMessage call whose additional_kwargs value is a dict literal
\* that already has a top-level "example" key, the pass plans no edit in that
\* call.
C9_ExistingKeyNoEdit ==
    script = "aimessage" =>
        \A k \in DOMAIN found :
            (\E d \in Range(AdditionalKwargsDicts(root, found[k])) : HasExampleKey(root, d))
                => EditsIn(root, edits, found[k]) = <<>>

\* the dict literals an edit replaces, each with the edit
MergedDicts(T, es) ==
    {x \in Nodes(T) \X Range(es) :
        /\ IsKind(T, x[1], "dictionary")
        /\ x[2].startPos = StartOf(T, x[1])
        /\ x[2].endPos = EndOf(T, x[1])}

\* the text of EXPR for the dict n: the value of the keyword argument that the
\* pass removes from the call that encloses n
ExampleValueAt(T, n) ==
    LET call == ParentCall(T, n)
        moved ==
            SelectSeq(FindAll(T, call, {k \in Nodes(T) : IsKind(T, k, "keyword_argument")}),
                LAMBDA kw : \E e \in Range(RemovalsIn(T, edits, call)) :
                               e.startPos <= StartOf(T, kw) /\ EndOf(T, kw) <= e.endPos)
    IN  TextOf(T, FieldOf(T, moved[1], "value"))

\* the children of the dict between its braces
DictEntries(T, dict) ==
    SelectSeq(ChildrenOf(T, dict), LAMBDA c : Kind(T, c) \notin {"{", "}"})

\* the text from the first entry of the dict through its last entry or comma
EntriesText(T, dict) ==
    Slice(T.text, StartOf(T, DictEntries(T, dict)[1]),
          EndOf(T, Last(DictEntries(T, dict))))

\* C10, as the code has it: merging into a dict literal without entries gives
\* exactly {"example": EXPR}; otherwise the replacement is {"example": EXPR, then
\* the text from the first entry through the last one, unchanged, then }: white
\* space next to the braces is dropped.
C10_MergeKeepsEntries ==
    script = "aimessage" =>
        \A x \in MergedDicts(root, edits) :
            x[2].insertedText =
                IF DictEntries(root, x[1]) = <<>>
                THEN <<"{">> \o ExampleEntry(ExampleValueAt(root, x[1])) \o <<"}">>
                ELSE <<"{">> \o ExampleEntry(ExampleValueAt(root, x[1])) \o <<",", " ">>
                     \o EntriesText(root, x[1]) \o <<"}">>

\* a finished pass that merged into a dict literal with white space inside its
\* braces, next to them
C10_Witness ==
    /\ PassDone("aimessage")
    /\ \E x \in MergedDicts(root, edits) :
          /\ DictEntries(root, x[1]) # <<>>
          /\ At(root.text, StartOf(root, x[1]) + 1) = " "

\* C10, as stated: the replacement of an empty dict is exactly {"example": EXPR};
\* otherwise the text between the braces is reproduced unchanged after the
\* prepended entry.
C10_MergeKeepsInnerText ==
    script = "aimessage" =>
        \A x \in MergedDicts(root, edits) :
            x[2].insertedText =
                IF DictEntries(root, x[1]) = <<>>
                THEN <<"{">> \o ExampleEntry(ExampleValueAt(root, x[1])) \o <<"}">>
                ELSE <<"{">> \o ExampleEntry(ExampleValueAt(root, x[1])) \o <<",", " ">>
                     \o Slice(root.text, StartOf(root, x[1]) + 1, EndOf(root, x[1]) - 1)
                     \o <<"}">>

-----------------------------------------------------------------------------
(* text-method-to-property *)

\* the kinds of the anonymous nodes: punctuation and keywords
AnonymousKinds ==
    {"(", ")", ",", ".", "=", ":", "[", "]", "{", "}", "->", "**",
     "from", "import", "as", "def"}

\* child.isNamed()
IsNamed(T, n) == Kind(T, n) \notin AnonymousKinds

\* const textMethodCalls = rootNode.findAll(...)
textMethodCalls(T) ==
    FindAll(T, 1,
        {n \in Nodes(T) :
            /\ IsKind(T, n, "call")
            /\ HasChild(T, n,
                  {f \in Nodes(T) :
                      /\ T.nodes[f].field = "function"
                      /\ IsKind(T, f, "attribute")
                      /\ HasChild(T, f, {c \in Nodes(T) : /\ T.nodes[c].field = "attribute"
                                                          /\ IsIdent(T, c, "text")})})})

\* the edits one iteration of the loop over textMethodCalls pushes
TextMethodEdits(T, callNode) ==
    LET argsNode == FieldOf(T, callNode, "arguments")
        args == SelectSeq(ChildrenOf(T, argsNode), LAMBDA child : IsNamed(T, child))
        attrNode == FieldOf(T, callNode, "function")
    IN  IF argsNode = NoNode THEN <<>>
        ELSE IF Len(args) > 0 THEN <<>>
        ELSE IF attrNode = NoNode THEN <<>>
        ELSE <<Replace(T, callNode, TextOf(T, attrNode))>>

(* The parse of a buffer of expression statements, one per line, each an   *)
(* identifier followed by attribute accesses and calls of at most one      *)
(* positional argument: the grammar of the buffers below.                  *)

RECURSIVE ParsePostfix(_, _, _)
RECURSIVE ParseExpr(_, _)

\* the expression that starts at atom p: [frag, next]
ParseExpr(t, p) == ParsePostfix(Id(t[p]), t, p + 1)

\* the postfix operators that follow expression f, applied left to right
ParsePostfix(f, t, p) ==
    IF p <= Len(t) /\ t[p] = "."
    THEN ParsePostfix(Attr(f, t[p + 1]), t, p + 2)
    ELSE IF p <= Len(t) /\ t[p] = "("
    THEN IF t[p + 1] = ")"
         THEN ParsePostfix(Call(f, <<>>), t, p + 2)
         ELSE ParsePostfix(Call(f, <<ParseExpr(t, p + 1).frag>>), t,
                           ParseExpr(t, p + 1).next + 1)
    ELSE [frag |-> f, next |-> p]

RECURSIVE ParseLines(_, _)
ParseLines(t, p) ==
    IF p > Len(t) THEN <<>>
    ELSE <<ExprStmt(ParseExpr(t, p).frag), Nl>> \o ParseLines(t, ParseExpr(t, p).next + 1)

\* root.root() of a buffer with text t
Parse(t) == Module(ParseLines(t, 1))

(* Input buffers of text-method-to-property: one statement, the identifier *)
(* r followed by up to MaxSuffixes postfix operators.                      *)

MaxSuffixes == 4

Suffixes == {"text", "strip", "call", "callArg", "callText"}

\* expression e followed by one postfix operator
WithSuffix(e, sfx) ==
    CASE sfx = "text"     -> Attr(e, "text")                 \* e.text
      [] sfx = "strip"    -> Attr(e, "strip")                \* e.strip
      [] sfx = "call"     -> Call(e, <<>>)                   \* e()
      [] sfx = "callArg"  -> Call(e, <<Id("x")>>)            \* e(x)
      [] OTHER            ->                                 \* e(r.text())
            Call(e, <<Call(Attr(Id("r"), "text"), <<>>)>>)

RECURSIVE WithSuffixes(_, _)
WithSuffixes(e, sfxs) ==
    IF sfxs = <<>> THEN e ELSE WithSuffixes(WithSuffix(e, Head(sfxs)), Tail(sfxs))

TextMethodInput(sfxs) == Module(<<ExprStmt(WithSuffixes(Id("r"), sfxs)), Nl>>)

InitTextMethod ==
    /\ script = "textmethod"
    /\ \E sfxs \in UNION {[1..m -> Suffixes] : m \in 1..MaxSuffixes} :
          root = TextMethodInput(sfxs)
    /\ pc = "loop"
    /\ found = textMethodCalls(root)
    /\ i = 1
    /\ edits = <<>>
    /\ count = 0
    /\ importEdit = NoEdit
    /\ result = Null
    /\ pass = 1
    /\ namesToRename = <<>>
    /\ processedNodeIds = {}

\* for (const callNode of textMethodCalls): an iteration that continues
TextMethodSkip ==
    /\ script = "textmethod" /\ pc = "loop"
    /\ i <= Len(found)
    /\ TextMethodEdits(root, found[i]) = <<>>
    /\ i' = i + 1
    /\ UNCHANGED <<script, root, found, pc, edits, count, importEdit, result, pass, namesToRename,
                   processedNodeIds>>

\* an iteration that reaches edits.push(callNode.replace(attrNode.text()))
TextMethodReplace ==
    /\ script = "textmethod" /\ pc = "loop"
    /\ i <= Len(found)
    /\ TextMethodEdits(root, found[i]) # <<>>
    /\ edits' = edits \o TextMethodEdits(root, found[i])
    /\ i' = i + 1
    /\ UNCHANGED <<script, root, found, pc, count, importEdit, result, pass, namesToRename,
                   processedNodeIds>>

\* if (edits.length === 0) return null
TextMethodUnchanged ==
    /\ script = "textmethod" /\ pc = "loop"
    /\ i > Len(found)
    /\ edits = <<>>
    /\ pc' = "done"
    /\ UNCHANGED <<script, root, found, i, edits, count, importEdit, result, pass, namesToRename,
                   processedNodeIds>>

\* return rootNode.commitEdits(edits)
TextMethodCommit ==
    /\ script = "textmethod" /\ pc = "loop"
    /\ i > Len(found)
    /\ edits # <<>>
    /\ result' = CommitEdits(root, edits)
    /\ pc' = "done"
    /\ UNCHANGED <<script, root, found, i, edits, count, importEdit, pass, namesToRename,
                   processedNodeIds>>

\* the script is started again on the text it returned
TextMethodRerun ==
    /\ script = "textmethod" /\ pc = "done"
    /\ result # Null
    /\ pass = 1
    /\ root' = Parse(result)
    /\ found' = textMethodCalls(Parse(result))
    /\ pass' = 2
    /\ pc' = "loop"
    /\ i' = 1
    /\ edits' = <<>>
    /\ result' = Null
    /\ UNCHANGED <<script, count, importEdit, namesToRename, processedNodeIds>>

NextTextMethod ==
    \/ TextMethodSkip \/ TextMethodReplace \/ TextMethodUnchanged
    \/ TextMethodCommit \/ TextMethodRerun

SpecTextMethod == InitTextMethod /\ [][NextTextMethod]_vars

-----------------------------------------------------------------------------
(* Properties of text-method-to-property *)

\* two edits whose spans share an atom, or one of which starts inside the other
Overlap(e1, e2) == e1.startPos < e2.endPos /\ e2.startPos < e1.endPos

\* C11: the edits a pass hands to commitEdits have pairwise disjoint spans that
\* lie within the buffer; chained or nested zero-argument .text() calls never
\* yield two edits one of which contains the other.
C11_EditsDisjoint ==
    (pc = "done" /\ result # Null)
        => /\ \A k \in DOMAIN edits :
                0 <= edits[k].startPos /\ edits[k].startPos <= edits[k].endPos
                /\ edits[k].endPos <= Len(root.text)
           /\ \A k, m \in DOMAIN edits : k # m => ~Overlap(edits[k], edits[m])

\* C12: text-method-to-property run on its own output finds no further match:
\* the second pass returns null.
C12_SecondPassUnchanged ==
    (script = "textmethod" /\ pass = 2 /\ pc = "done") => result = Null

-----------------------------------------------------------------------------
(* create-react-agent-to-create-agent *)

OLD_MODULE == <<"langgraph", ".", "prebuilt">>
OLD_FUNCTION == "create_react_agent"
NEW_MODULE == <<"langchain", ".", "agents">>
NEW_FUNCTION == "create_agent"

\* const importStatements = rootNode.findAll(...)
importStatements(T) ==
    FindAll(T, 1,
        {n \in Nodes(T) :
            /\ IsKind(T, n, "import_from_statement")
            /\ HasChild(T, n, {m \in Nodes(T) : /\ T.nodes[m].field = "module_name"
                                                /\ IsKind(T, m, "dotted_name")
                                                /\ TextOf(T, m) = OLD_MODULE})})

\* const directImport = importStmt.find(...): a dotted_name create_react_agent
\* whose parent is an import_from_statement
directImport(T, importStmt) ==
    Find(T, importStmt,
        {n \in Nodes(T) :
            /\ IsKind(T, n, "dotted_name")
            /\ ParentOf(T, n) # 0
            /\ IsKind(T, ParentOf(T, n), "import_from_statement")
            /\ TextOf(T, n) = <<OLD_FUNCTION>>})

\* const aliasedImport = importStmt.find(...)
aliasedImport(T, importStmt) ==
    Find(T, importStmt,
        {n \in Nodes(T) :
            /\ IsKind(T, n, "aliased_import")
            /\ HasChild(T, n, {c \in Nodes(T) : /\ IsKind(T, c, "dotted_name")
                                                /\ TextOf(T, c) = <<OLD_FUNCTION>>})})

\* namesToRename.set(name, {isAlias}): a present key keeps its place
MapSet(m, name, isAlias) ==
    IF \E k \in DOMAIN m : m[k].name = name
    THEN [k \in DOMAIN m |->
            IF m[k].name = name THEN [name |-> name, isAlias |-> isAlias] ELSE m[k]]
    ELSE Append(m, [name |-> name, isAlias |-> isAlias])

\* `from ${NEW_MODULE} import ${NEW_FUNCTION}`
NewImport == <<"from", " ">> \o NEW_MODULE \o <<" ", "import", " ", NEW_FUNCTION>>

\* `from ${NEW_MODULE} import ${NEW_FUNCTION} as ${aliasName}`
NewAliasedImport(aliasName) == NewImport \o <<" ", "as", " ", aliasName>>

\* rootNode.findAll(call has function identifier ^nameToFind$)
CallsOf(T, nameToFind) ==
    FindAll(T, 1,
        {n \in Nodes(T) :
            /\ IsKind(T, n, "call")
            /\ HasChild(T, n, {f \in Nodes(T) : /\ T.nodes[f].field = "function"
                                                /\ IsIdent(T, f, nameToFind)})})

\* the call sites the loop over namesToRename visits, in its order, each with
\* the entry of the map it was found for
RECURSIVE CallSites(_, _)
CallSites(T, m) ==
    IF m = <<>> THEN <<>>
    ELSE [k \in 1..Len(CallsOf(T, Head(m).name)) |->
            [call |-> CallsOf(T, Head(m).name)[k], name |-> Head(m).name,
             isAlias |-> Head(m).isAlias]]
         \o CallSites(T, Tail(m))

\* const newName = info.isAlias ? nameToFind : NEW_FUNCTION
NewNameAlways(site) == NEW_FUNCTION
NewName(site) == IF site.isAlias THEN site.name ELSE NEW_FUNCTION

(* Input buffers of create-react-agent-to-create-agent: up to two import   *)
(* statements, then statements that call or mention the function.          *)

ReactImportKinds == {"direct", "aliasA", "directMore", "aliasMore", "other", "toolNode"}

ReactImportOrder == <<"direct", "aliasA", "directMore", "aliasMore", "other", "toolNode">>

ReactImport(k) ==
    CASE k = "direct" ->
            \* from langgraph.prebuilt import create_react_agent
            ImportFrom(Dotted2("langgraph", "prebuilt"), <<Name(<<OLD_FUNCTION>>)>>, "line")
      [] k = "aliasA" ->
            \* from langgraph.prebuilt import create_react_agent as A
            ImportFrom(Dotted2("langgraph", "prebuilt"),
                       <<Aliased(<<OLD_FUNCTION>>, "A")>>, "line")
      [] k = "directMore" ->
            \* from langgraph.prebuilt import ToolNode, create_react_agent
            ImportFrom(Dotted2("langgraph", "prebuilt"),
                       <<Name(<<"ToolNode">>), Name(<<OLD_FUNCTION>>)>>, "line")
      [] k = "aliasMore" ->
            \* from langgraph.prebuilt import (create_react_agent as A, ToolNode)
            ImportFrom(Dotted2("langgraph", "prebuilt"),
                       <<Aliased(<<OLD_FUNCTION>>, "A"), Name(<<"ToolNode">>)>>, "multi")
      [] k = "other" ->
            \* from my.agents import create_react_agent
            ImportFrom(Dotted2("my", "agents"), <<Name(<<OLD_FUNCTION>>)>>, "line")
      [] OTHER ->
            \* from langgraph.prebuilt import ToolNode
            ImportFrom(Dotted2("langgraph", "prebuilt"), <<Name(<<"ToolNode">>)>>, "line")

ReactStmtKinds == {"call", "callA", "callQual", "ref", "arg"}

ReactStmtOrder == <<"call", "callA", "callQual", "ref", "arg">>

ReactStmt(k) ==
    CASE k = "call"     ->                   \* create_react_agent(x)
            ExprStmt(Call(Id(OLD_FUNCTION), <<Id("x")>>))
      [] k = "callA"    ->                   \* A(x)
            ExprStmt(Call(Id("A"), <<Id("x")>>))
      [] k = "callQual" ->                   \* lg.create_react_agent(x)
            ExprStmt(Call(Attr(Id("lg"), OLD_FUNCTION), <<Id("x")>>))
      [] k = "ref"      ->                   \* create_react_agent
            ExprStmt(Id(OLD_FUNCTION))
      [] OTHER          ->                   \* partial(create_react_agent)
            ExprStmt(Call(Id("partial"), <<Id(OLD_FUNCTION)>>))

MaxImports == 2

ReactImports == {<<>>} \cup StmtSeqs(ReactImportKinds, ReactImportOrder, MaxImports)

ReactBodies == StmtSeqs(ReactStmtKinds, ReactStmtOrder, MaxStmts)

ReactInput(imports, body) ==
    Module(Lines([k \in 1..Len(imports) |-> ReactImport(imports[k])])
           \o Lines([k \in 1..Len(body) |-> ReactStmt(body[k])]))

InitReact ==
    /\ script = "react"
    /\ \E imports \in ReactImports, body \in ReactBodies :
          root = ReactInput(imports, body)
    /\ pc = "imports"
    /\ found = importStatements(root)
    /\ i = 1
    /\ edits = <<>>
    /\ count = 0
    /\ importEdit = NoEdit
    /\ result = Null
    /\ pass = 1
    /\ namesToRename = <<>>
    /\ processedNodeIds = {}

\* for (const importStmt of importStatements): if (directImport) {...; continue}
ReactDirect ==
    /\ script = "react" /\ pc = "imports"
    /\ i <= Len(found)
    /\ directImport(root, found[i]) # NoNode
    /\ namesToRename' = MapSet(namesToRename, OLD_FUNCTION, FALSE)
    /\ edits' = Append(edits, Replace(root, found[i], NewImport))
    /\ i' = i + 1
    /\ UNCHANGED <<script, root, found, pc, count, importEdit, result, pass, processedNodeIds>>

\* if (aliasedImport) { if (aliasNode) {...} }
ReactAliased ==
    /\ script = "react" /\ pc = "imports"
    /\ i <= Len(found)
    /\ directImport(root, found[i]) = NoNode
    /\ aliasedImport(root, found[i]) # NoNode
    /\ LET aliasNode == FieldOf(root, aliasedImport(root, found[i]), "alias")
           aliasName == TextOf(root, aliasNode)[1]
       IN  /\ aliasNode # NoNode
           /\ namesToRename' = MapSet(namesToRename, aliasName, TRUE)
           /\ edits' = Append(edits, Replace(root, found[i], NewAliasedImport(aliasName)))
    /\ i' = i + 1
    /\ UNCHANGED <<script, root, found, pc, count, importEdit, result, pass, processedNodeIds>>

\* an import from langgraph.prebuilt of other names only
ReactOtherImport ==
    /\ script = "react" /\ pc = "imports"
    /\ i <= Len(found)
    /\ directImport(root, found[i]) = NoNode
    /\ aliasedImport(root, found[i]) = NoNode
    /\ i' = i + 1
    /\ UNCHANGED <<script, root, found, pc, edits, count, importEdit, result, pass,
                   namesToRename, processedNodeIds>>

\* if (namesToRename.size === 0) return null
ReactNoImport ==
    /\ script = "react" /\ pc = "imports"
    /\ i > Len(found)
    /\ namesToRename = <<>>
    /\ pc' = "done"
    /\ UNCHANGED <<script, root, found, i, edits, count, importEdit, result, pass,
                   namesToRename, processedNodeIds>>

\* for (const [nameToFind, info] of namesToRename) { const calls = ... }
ReactFindCalls ==
    /\ script = "react" /\ pc = "imports"
    /\ i > Len(found)
    /\ namesToRename # <<>>
    /\ found' = CallSites(root, namesToRename)
    /\ i' = 1
    /\ pc' = "calls"
    /\ UNCHANGED <<script, root, edits, count, importEdit, result, pass, namesToRename,
                   processedNodeIds>>

\* for (const call of calls): funcNode.text() !== newName, the call is renamed
ReactRename ==
    /\ script = "react" /\ pc = "calls"
    /\ i <= Len(found)
    /\ LET funcNode == FieldOf(root, found[i].call, "function")
       IN  /\ funcNode # NoNode
           /\ TextOf(root, funcNode) # <<NewName(found[i])>>
           /\ edits' = Append(edits, Replace(root, funcNode, <<NewName(found[i])>>))
    /\ i' = i + 1
    /\ UNCHANGED <<script, root, found, pc, count, importEdit, result, pass, namesToRename,
                   processedNodeIds>>

\* for (const call of calls): the call already has the new name
ReactKeep ==
    /\ script = "react" /\ pc = "calls"
    /\ i <= Len(found)
    /\ LET funcNode == FieldOf(root, found[i].call, "function")
       IN  funcNode = NoNode \/ TextOf(root, funcNode) = <<NewName(found[i])>>
    /\ i' = i + 1
    /\ UNCHANGED <<script, root, found, pc, edits, count, importEdit, result, pass,
                   namesToRename, processedNodeIds>>

\* if (edits.length === 0) return null; return rootNode.commitEdits(edits)
\* (every entry of namesToRename came with an edit, so edits is not empty here)
ReactCommit ==
    /\ script = "react" /\ pc = "calls"
    /\ i > Len(found)
    /\ result' = ReturnValue(root, edits)
    /\ pc' = "done"
    /\ UNCHANGED <<script, root, found, i, edits, count, importEdit, pass, namesToRename,
                   processedNodeIds>>

NextReact ==
    \/ ReactDirect \/ ReactAliased \/ ReactOtherImport \/ ReactNoImport
    \/ ReactFindCalls \/ ReactRename \/ ReactKeep \/ ReactCommit

SpecReact == InitReact /\ [][NextReact]_vars

-----------------------------------------------------------------------------
(* Properties of create-react-agent-to-create-agent *)

\* the references to the imported function: the identifiers create_react_agent
\* outside import statements, the attribute of a qualified name excepted
FunctionRefs(T) ==
    SelectSeq(RefsOutsideImports(T, OLD_FUNCTION),
              LAMBDA n : T.nodes[n].field # "attribute")

\* the statement imports create_react_agent from langgraph.prebuilt under its own name
ImportsDirectly(T, st) ==
    /\ TextOf(T, FieldOf(T, st, "module_name")) = OLD_MODULE
    /\ \E c \in Range(BoundNames(T, st)) :
          IsKind(T, c, "dotted_name") /\ TextOf(T, c) = <<OLD_FUNCTION>>

\* C19: after a pass that rewrites a non-aliased import of create_react_agent
\* from langgraph.prebuilt, no reference to the identifier create_react_agent
\* remains: call sites and non-call references alike are renamed to create_agent.
C19_NoOldReferenceRemains ==
    (PassDone("react") /\ \E st \in Range(ImportStmts(root)) : ImportsDirectly(root, st))
        => \A ref \in Range(FunctionRefs(root)) :
              \E k \in DOMAIN edits : edits[k] = Replace(root, ref, <<NEW_FUNCTION>>)

\* the aliased imports `create_react_agent as A` of a statement that imports
\* from langgraph.prebuilt
AliasedOldFunction(T, st) ==
    IF TextOf(T, FieldOf(T, st, "module_name")) # OLD_MODULE THEN <<>>
    ELSE SelectSeq(BoundNames(T, st),
            LAMBDA c : /\ IsKind(T, c, "aliased_import")
                       /\ TextOf(T, FieldOf(T, c, "name")) = <<OLD_FUNCTION>>)

AliasOf(T, c) == TextOf(T, FieldOf(T, c, "alias"))[1]

\* no edit touches the span of node n
Untouched(T, es, n) ==
    \A k \in DOMAIN es : ~Overlap(es[k], Replace(T, n, <<>>))

\* C20: for `from langgraph.prebuilt import create_react_agent as A` the import
\* becomes `from langchain.agents import create_agent as A`, and no call site
\* that uses A receives an edit.
C20_AliasPreserved ==
    PassDone("react") =>
        \A st \in Range(ImportStmts(root)) :
            \A c \in Range(AliasedOldFunction(root, st)) :
                /\ \E k \in DOMAIN edits :
                      edits[k] = Replace(root, st, NewAliasedImport(AliasOf(root, c)))
                /\ Includes(result, NewAliasedImport(AliasOf(root, c)))
                /\ \A call \in Range(CallsOf(root, AliasOf(root, c))) :
                      /\ Untouched(root, edits, call)
                      /\ Includes(result, TextOf(root, call))

\* an aliased import was rewritten in a buffer that calls the function by its alias
C20_Witness ==
    /\ PassDone("react")
    /\ \E st \in Range(ImportStmts(root)) :
          \E c \in Range(AliasedOldFunction(root, st)) :
              /\ CallsOf(root, AliasOf(root, c)) # <<>>
              /\ Includes(result, NewAliasedImport(AliasOf(root, c)))

-----------------------------------------------------------------------------
(* response-format-tool-strategy *)

TOOL_STRATEGY_IMPORT ==
    <<"from", " ", "langchain", ".", "agents", ".", "structured_output", " ",
      "import", " ", "ToolStrategy">>

\* a test of the module path alone
hasStructuredOutputImport(T) ==
    \E importNode \in Range(ImportStmts(T)) :
        Includes(TextOf(T, importNode),
                 <<"langchain", ".", "agents", ".", "structured_output">>)

\* some import_from_statement whose text includes both the module path and the name
hasToolStrategyImport(T) ==
    \E importNode \in Range(ImportStmts(T)) :
        /\ Includes(TextOf(T, importNode),
                    <<"langchain", ".", "agents", ".", "structured_output">>)
        /\ Includes(TextOf(T, importNode), <<"ToolStrategy">>)

\* the end of the last import, 0 when there is none
findImportInsertPosition(T) ==
    LET imports == FindAll(T, 1, {n \in Nodes(T) : \/ IsKind(T, n, "import_statement")
                                                   \/ IsKind(T, n, "import_from_statement")})
    IN  IF imports = <<>> THEN 0
        ELSE Max({0} \cup {EndOf(T, imports[k]) : k \in DOMAIN imports})

\* a call whose function text is exactly ToolStrategy or ProviderStrategy
isAlreadyWrapped(T, node) ==
    /\ IsKind(T, node, "call")
    /\ FieldOf(T, node, "function") # NoNode
    /\ TextOf(T, FieldOf(T, node, "function")) \in {<<"ToolStrategy">>, <<"ProviderStrategy">>}

isTupleForm(T, node) == IsKind(T, node, "tuple")

\* const createAgentCalls = rootNode.findAll(...)
createAgentCalls(T) == CallsOf(T, "create_agent")

\* const responseFormatArg = argsNode.find(...)
responseFormatArg(T, argsNode) ==
    Find(T, argsNode,
        {n \in Nodes(T) :
            /\ IsKind(T, n, "keyword_argument")
            /\ HasChild(T, n, {c \in Nodes(T) : /\ T.nodes[c].field = "name"
                                                /\ IsIdent(T, c, "response_format")})})

\* `ToolStrategy(${valueText})`
NewValue(valueText) == <<"ToolStrategy", "(">> \o valueText \o <<")">>

\* the edits one iteration of the loop over createAgentCalls pushes
ResponseFormatEdits(T, callNode) ==
    LET argsNode == FieldOf(T, callNode, "arguments")
        arg == responseFormatArg(T, argsNode)
        valueNode == FieldOf(T, arg, "value")
    IN  IF argsNode = NoNode THEN <<>>
        ELSE IF arg = NoNode THEN <<>>
        ELSE IF valueNode = NoNode THEN <<>>
        ELSE IF isTupleForm(T, valueNode) THEN <<>>
        ELSE IF isAlreadyWrapped(T, valueNode) THEN <<>>
        ELSE <<Replace(T, valueNode, NewValue(TextOf(T, valueNode)))>>

\* the edit that adds the import, NoEdit when the import is there
ToolStrategyImportEdit(T) ==
    IF hasToolStrategyImport(T) THEN NoEdit
    ELSE IF findImportInsertPosition(T) = 0
    THEN MkEdit(0, 0, TOOL_STRATEGY_IMPORT \o <<"\n", "\n">>)
    ELSE MkEdit(findImportInsertPosition(T), findImportInsertPosition(T),
                <<"\n">> \o TOOL_STRATEGY_IMPORT)

(* Input buffers of response-format-tool-strategy: up to MaxImports import *)
(* statements, then calls with a response_format argument.                 *)

\* a.b.c
Dotted3(a, b, c) ==
    Wrap("dotted_name", CatAll(<<Id(a), Tok("."), Id(b), Tok("."), Id(c)>>))

StructuredOutput == Dotted3("langchain", "agents", "structured_output")

\* ( a, b )
Tuple(items) == Wrap("tuple", CatAll(<<Tok("(")>> \o CommaSep(items) \o <<Tok(")")>>))

\* import a
Import(a) ==
    Wrap("import_statement", CatAll(<<Tok("import"), Sp, InField("name", Name(<<a>>))>>))

FormatImportKinds == {"tool", "provider", "elsewhere", "plain"}

FormatImportOrder == <<"tool", "provider", "elsewhere", "plain">>

FormatImport(k) ==
    CASE k = "tool" ->
            \* from langchain.agents.structured_output import ToolStrategy
            ImportFrom(StructuredOutput, <<Name(<<"ToolStrategy">>)>>, "line")
      [] k = "provider" ->
            \* from langchain.agents.structured_output import (ProviderStrategy, AutoStrategy)
            ImportFrom(StructuredOutput,
                       <<Name(<<"ProviderStrategy">>), Name(<<"AutoStrategy">>)>>, "multi")
      [] k = "elsewhere" ->
            \* from my.agents import ToolStrategy
            ImportFrom(Dotted2("my", "agents"), <<Name(<<"ToolStrategy">>)>>, "line")
      [] OTHER ->
            \* import so
            Import("so")

FormatValueKinds == {"schema", "tool", "provider", "toolQual", "tuple", "none", "nested"}

FormatValueOrder == <<"schema", "tool", "provider", "toolQual", "tuple", "none", "nested">>

FormatStmt(k) ==
    CASE k = "schema" ->           \* create_agent(m, response_format=S)
            ExprStmt(Call(Id("create_agent"),
                          CommaSep(<<Id("m"), Kw("response_format", Id("S"))>>)))
      [] k = "tool" ->             \* create_agent(response_format=ToolStrategy(S))
            ExprStmt(Call(Id("create_agent"),
                          <<Kw("response_format", Call(Id("ToolStrategy"), <<Id("S")>>))>>))
      [] k = "provider" ->         \* create_agent(response_format=ProviderStrategy(S))
            ExprStmt(Call(Id("create_agent"),
                          <<Kw("response_format",
                               Call(Id("ProviderStrategy"), <<Id("S")>>))>>))
      [] k = "toolQual" ->         \* create_agent(response_format=so.ToolStrategy(S))
            ExprStmt(Call(Id("create_agent"),
                          <<Kw("response_format",
                               Call(Attr(Id("so"), "ToolStrategy"), <<Id("S")>>))>>))
      [] k = "tuple" ->            \* create_agent(response_format=(p, S))
            ExprStmt(Call(Id("create_agent"),
                          <<Kw("response_format", Tuple(<<Id("p"), Id("S")>>))>>))
      [] k = "none" ->             \* create_agent(m)
            ExprStmt(Call(Id("create_agent"), <<Id("m")>>))
      [] OTHER ->                  \* create_agent(model=init(response_format=J))
            ExprStmt(Call(Id("create_agent"),
                          <<Kw("model", Call(Id("init"),
                                             <<Kw("response_format", Id("J"))>>))>>))

FormatImports == {<<>>} \cup StmtSeqs(FormatImportKinds, FormatImportOrder, MaxImports)

FormatBodies == StmtSeqs(FormatValueKinds, FormatValueOrder, MaxStmts)

FormatInput(imports, body) ==
    Module(Lines([k \in 1..Len(imports) |-> FormatImport(imports[k])])
           \o Lines([k \in 1..Len(body) |-> FormatStmt(body[k])]))

InitFormat ==
    /\ script = "format"
    /\ \E imports \in FormatImports, body \in FormatBodies :
          root = FormatInput(imports, body)
    /\ pc = "loop"
    /\ found = createAgentCalls(root)
    /\ i = 1
    /\ edits = <<>>
    /\ count = 0
    /\ importEdit = NoEdit
    /\ result = Null
    /\ pass = 1
    /\ namesToRename = <<>>
    /\ processedNodeIds = {}

\* for (const callNode of createAgentCalls): an iteration that continues
FormatSkip ==
    /\ script = "format" /\ pc = "loop"
    /\ i <= Len(found)
    /\ ResponseFormatEdits(root, found[i]) = <<>>
    /\ i' = i + 1
    /\ UNCHANGED <<script, root, found, pc, edits, count, importEdit, result, pass,
                   namesToRename, processedNodeIds>>

\* an iteration that reaches edits.push(valueNode.replace(newValue)); needsImport = true
FormatWrap ==
    /\ script = "format" /\ pc = "loop"
    /\ i <= Len(found)
    /\ ResponseFormatEdits(root, found[i]) # <<>>
    /\ edits' = edits \o ResponseFormatEdits(root, found[i])
    /\ count' = count + 1
    /\ i' = i + 1
    /\ UNCHANGED <<script, root, found, pc, importEdit, result, pass, namesToRename,
                   processedNodeIds>>

\* if (edits.length === 0) return null
FormatUnchanged ==
    /\ script = "format" /\ pc = "loop"
    /\ i > Len(found)
    /\ edits = <<>>
    /\ pc' = "done"
    /\ UNCHANGED <<script, root, found, i, edits, count, importEdit, result, pass,
                   namesToRename, processedNodeIds>>

\* if (needsImport && !hasToolStrategyImport(rootNode)) {...}
FormatImportStep ==
    /\ script = "format" /\ pc = "loop"
    /\ i > Len(found)
    /\ edits # <<>>
    /\ LET ed == IF count > 0 THEN ToolStrategyImportEdit(root) ELSE NoEdit
       IN  /\ importEdit' = ed
           /\ edits' = IF ed # NoEdit THEN Append(edits, ed) ELSE edits
    /\ pc' = "commit"
    /\ UNCHANGED <<script, root, found, i, count, result, pass, namesToRename,
                   processedNodeIds>>

NextFormat == FormatSkip \/ FormatWrap \/ FormatUnchanged \/ FormatImportStep \/ Commit

SpecFormat == InitFormat /\ [][NextFormat]_vars

-----------------------------------------------------------------------------
(* Properties of response-format-tool-strategy *)

StrategyNames == {<<"ToolStrategy">>, <<"ProviderStrategy">>}

\* a call to ToolStrategy or ProviderStrategy, the callee bare or module-qualified
IsStrategyCall(T, v) ==
    /\ IsKind(T, v, "call")
    /\ LET f == FieldOf(T, v, "function")
       IN  \/ IsKind(T, f, "identifier") /\ TextOf(T, f) \in StrategyNames
           \/ /\ IsKind(T, f, "attribute")
              /\ TextOf(T, FieldOf(T, f, "attribute")) \in StrategyNames

\* C17: response-format-tool-strategy never wraps a response_format value that is
\* a tuple or a call to ToolStrategy or ProviderStrategy, bare or module-qualified;
\* every other response_format value of a create_agent call is replaced by
\* ToolStrategy(<original text>).
C17_WrapsExactlyOtherValues ==
    (script = "format" /\ pc = "done") =>
        \A call \in Range(createAgentCalls(root)) :
            \A kw \in Range(KeywordsNamed(root, call, "response_format")) :
                LET v == FieldOf(root, kw, "value")
                IN  IF IsKind(root, v, "tuple") \/ IsStrategyCall(root, v)
                    THEN Untouched(root, edits, v)
                    ELSE \E k \in DOMAIN edits :
                            edits[k] = Replace(root, v, NewValue(TextOf(root, v)))

\* the edits that insert the import of ToolStrategy
ImportInsertions(es) ==
    {k \in DOMAIN es : /\ es[k].startPos = es[k].endPos
                       /\ Includes(es[k].insertedText, TOOL_STRATEGY_IMPORT)}

\* the edits that wrap a value
Wraps(es) ==
    {k \in DOMAIN es : /\ es[k].startPos < es[k].endPos
                       /\ Len(es[k].insertedText) >= 2
                       /\ SubSeq(es[k].insertedText, 1, 2) = <<"ToolStrategy", "(">>}

\* some statement imports ToolStrategy from langchain.agents.structured_output
ImportsToolStrategy(T) ==
    \E st \in Range(ImportStmts(T)) :
        /\ TextOf(T, FieldOf(T, st, "module_name")) = StructuredOutput.text
        /\ \E c \in Range(BoundNames(T, st)) :
              \/ IsKind(T, c, "dotted_name") /\ TextOf(T, c) = <<"ToolStrategy">>
              \/ /\ IsKind(T, c, "aliased_import")
                 /\ TextOf(T, FieldOf(T, c, "name")) = <<"ToolStrategy">>

-----------------------------------------------------------------------------
(* prompt-to-system-prompt *)

AgentFunctions == {"create_agent", "create_react_agent"}

ExpectedModules == {<<"langchain", ".", "agents">>, <<"langgraph", ".", "prebuilt">>}

\* const calls = rootNode.findAll(...)
promptCalls(T) ==
    FindAll(T, 1,
        {n \in Nodes(T) :
            /\ IsKind(T, n, "call")
            /\ HasChild(T, n, {f \in Nodes(T) :
                                  /\ T.nodes[f].field = "function"
                                  /\ IsKind(T, f, "identifier")
                                  /\ \E name \in AgentFunctions : TextOf(T, f) = <<name>>})})

\* funcNode.definition() of kind import: the name an import statement of the
\* buffer binds the identifier with, NoNode when no import binds it
Definition(T, funcNode) ==
    Find(T, 1,
        {n \in Nodes(T) :
            /\ ParentOf(T, n) # 0
            /\ IsKind(T, ParentOf(T, n), "import_from_statement")
            /\ T.nodes[n].field = "name"
            /\ TextOf(T, n) = TextOf(T, funcNode)})

\* the test of lines 81-98: the definition resolves to an import from a module
\* other than langchain.agents and langgraph.prebuilt
FromOtherModule(T, funcNode) ==
    LET def == Definition(T, funcNode)
        stmts == SelectSeq(AncestorsOf(T, def),
                           LAMBDA a : IsKind(T, a, "import_from_statement"))
        moduleName == FieldOf(T, stmts[1], "module_name")
    IN  /\ def # NoNode
        /\ stmts # <<>>
        /\ moduleName # NoNode
        /\ TextOf(T, moduleName) \notin ExpectedModules

\* const keywordArgs = argList.findAll({ rule: { kind: "keyword_argument" } })
keywordArgs(T, argList) ==
    FindAll(T, argList, {n \in Nodes(T) : IsKind(T, n, "keyword_argument")})

\* the keyword arguments of the list whose name node has the text name
NamedArgs(T, argList, name) ==
    SelectSeq(keywordArgs(T, argList),
              LAMBDA kwArg : /\ FieldOf(T, kwArg, "name") # NoNode
                             /\ TextOf(T, FieldOf(T, kwArg, "name")) = <<name>>)

\* let promptArg: the last keyword argument named prompt, NoNode when none
promptArg(T, argList) ==
    LET ps == NamedArgs(T, argList, "prompt")
    IN  IF ps = <<>> THEN NoNode ELSE ps[Len(ps)]

hasSystemPrompt(T, argList) == NamedArgs(T, argList, "system_prompt") # <<>>

\* call.field("arguments") when it is an argument_list, NoNode otherwise
ArgListOf(T, call) ==
    LET argList == FieldOf(T, call, "arguments")
    IN  IF argList # NoNode /\ IsKind(T, argList, "argument_list") THEN argList ELSE NoNode

(* Input buffers of prompt-to-system-prompt: up to MaxImports imports of   *)
(* the agent functions, then calls with prompt and system_prompt arguments *)

PromptImportKinds == {"agents", "prebuilt", "mine"}

PromptImportOrder == <<"agents", "prebuilt", "mine">>

PromptImport(k) ==
    CASE k = "agents" ->
            \* from langchain.agents import create_agent
            ImportFrom(Dotted2("langchain", "agents"), <<Name(<<"create_agent">>)>>, "line")
      [] k = "prebuilt" ->
            \* from langgraph.prebuilt import create_react_agent
            ImportFrom(Dotted2("langgraph", "prebuilt"),
                       <<Name(<<"create_react_agent">>)>>, "line")
      [] OTHER ->
            \* from my.agents import create_agent
            ImportFrom(Dotted2("my", "agents"), <<Name(<<"create_agent">>)>>, "line")

PromptStmtKinds ==
    {"prompt", "react", "both", "system", "nestedSystem", "nestedPrompt", "qual", "build"}

PromptStmtOrder ==
    <<"prompt", "react", "both", "system", "nestedSystem", "nestedPrompt", "qual", "build">>

PromptStmt(k) ==
    CASE k = "prompt" ->        \* create_agent(m, prompt=p)
            ExprStmt(Call(Id("create_agent"), CommaSep(<<Id("m"), Kw("prompt", Id("p"))>>)))
      [] k = "react" ->         \* create_react_agent(m, prompt=p)
            ExprStmt(Call(Id("create_react_agent"),
                          CommaSep(<<Id("m"), Kw("prompt", Id("p"))>>)))
      [] k = "both" ->          \* create_agent(prompt=p, system_prompt=s)
            ExprStmt(Call(Id("create_agent"),
                          CommaSep(<<Kw("prompt", Id("p")), Kw("system_prompt", Id("s"))>>)))
      [] k = "system" ->        \* create_agent(system_prompt=s)
            ExprStmt(Call(Id("create_agent"), <<Kw("system_prompt", Id("s"))>>))
      [] k = "nestedSystem" ->  \* create_react_agent(model=init(system_prompt=s), prompt=p)
            ExprStmt(Call(Id("create_react_agent"),
                          CommaSep(<<Kw("model", Call(Id("init"),
                                                      <<Kw("system_prompt", Id("s"))>>)),
                                     Kw("prompt", Id("p"))>>)))
      [] k = "nestedPrompt" ->  \* create_react_agent(m, tools=tool(prompt=q))
            ExprStmt(Call(Id("create_react_agent"),
                          CommaSep(<<Id("m"),
                                     Kw("tools", Call(Id("tool"), <<Kw("prompt", Id("q"))>>))>>)))
      [] k = "qual" ->          \* lg.create_agent(prompt=p)
            ExprStmt(Call(Attr(Id("lg"), "create_agent"), <<Kw("prompt", Id("p"))>>))
      [] OTHER ->               \* build(prompt=p)
            ExprStmt(Call(Id("build"), <<Kw("prompt", Id("p"))>>))

\* one import at most binds a name: the definition of an identifier is then the
\* same whichever binding the semantic analysis picks
PromptImports ==
    {<<>>} \cup {b \in StmtSeqs(PromptImportKinds, PromptImportOrder, MaxImports) :
                    ~("agents" \in Range(b) /\ "mine" \in Range(b))}

PromptBodies == StmtSeqs(PromptStmtKinds, PromptStmtOrder, MaxStmts)

PromptInput(imports, body) ==
    Module(Lines([k \in 1..Len(imports) |-> PromptImport(imports[k])])
           \o Lines([k \in 1..Len(body) |-> PromptStmt(body[k])]))

InitPrompt ==
    /\ script = "prompt"
    /\ \E imports \in PromptImports, body \in PromptBodies :
          root = PromptInput(imports, body)
    /\ pc = "loop"
    /\ found = promptCalls(root)
    /\ i = 1
    /\ edits = <<>>
    /\ count = 0
    /\ importEdit = NoEdit
    /\ result = Null
    /\ pass = 1
    /\ namesToRename = <<>>
    /\ processedNodeIds = {}

\* for (const call of calls): the definition is an import from another module,
\* or the call has no argument_list
PromptForeign ==
    /\ script = "prompt" /\ pc = "loop"
    /\ i <= Len(found)
    /\ \/ FieldOf(root, found[i], "function") = NoNode
       \/ FromOtherModule(root, FieldOf(root, found[i], "function"))
       \/ ArgListOf(root, found[i]) = NoNode
    /\ i' = i + 1
    /\ UNCHANGED <<script, root, found, pc, edits, count, importEdit, result, pass,
                   namesToRename, processedNodeIds>>

\* if (promptArg && hasSystemPrompt) { console.warn(...); continue }
PromptAmbiguous ==
    /\ script = "prompt" /\ pc = "loop"
    /\ i <= Len(found)
    /\ FieldOf(root, found[i], "function") # NoNode
    /\ ~FromOtherModule(root, FieldOf(root, found[i], "function"))
    /\ ArgListOf(root, found[i]) # NoNode
    /\ promptArg(root, ArgListOf(root, found[i])) # NoNode
    /\ hasSystemPrompt(root, ArgListOf(root, found[i]))
    /\ count' = count + 1
    /\ i' = i + 1
    /\ UNCHANGED <<script, root, found, pc, edits, importEdit, result, pass, namesToRename,
                   processedNodeIds>>

\* no prompt= among the keyword arguments
PromptAbsent ==
    /\ script = "prompt" /\ pc = "loop"
    /\ i <= Len(found)
    /\ FieldOf(root, found[i], "function") # NoNode
    /\ ~FromOtherModule(root, FieldOf(root, found[i], "function"))
    /\ ArgListOf(root, found[i]) # NoNode
    /\ promptArg(root, ArgListOf(root, found[i])) = NoNode
    /\ i' = i + 1
    /\ UNCHANGED <<script, root, found, pc, edits, count, importEdit, result, pass,
                   namesToRename, processedNodeIds>>

\* if (promptArg && !hasSystemPrompt) edits.push(nameNode.replace("system_prompt"))
PromptRename ==
    /\ script = "prompt" /\ pc = "loop"
    /\ i <= Len(found)
    /\ FieldOf(root, found[i], "function") # NoNode
    /\ ~FromOtherModule(root, FieldOf(root, found[i], "function"))
    /\ ArgListOf(root, found[i]) # NoNode
    /\ promptArg(root, ArgListOf(root, found[i])) # NoNode
    /\ ~hasSystemPrompt(root, ArgListOf(root, found[i]))
    /\ LET nameNode == FieldOf(root, promptArg(root, ArgListOf(root, found[i])), "name")
       IN  edits' = Append(edits, Replace(root, nameNode, <<"system_prompt">>))
    /\ i' = i + 1
    /\ UNCHANGED <<script, root, found, pc, count, importEdit, result, pass, namesToRename,
                   processedNodeIds>>

\* if (edits.length === 0) return null; return rootNode.commitEdits(edits)
PromptReturn ==
    /\ script = "prompt" /\ pc = "loop"
    /\ i > Len(found)
    /\ result' = ReturnValue(root, edits)
    /\ pc' = "done"
    /\ UNCHANGED <<script, root, found, i, edits, count, importEdit, pass, namesToRename,
                   processedNodeIds>>

NextPrompt ==
    \/ PromptForeign \/ PromptAmbiguous \/ PromptAbsent \/ PromptRename
    \/ PromptReturn

SpecPrompt == InitPrompt /\ [][NextPrompt]_vars

-----------------------------------------------------------------------------
(* Properties of prompt-to-system-prompt *)

\* the calls the codemod is about: the callee is the identifier create_agent or
\* create_react_agent and no import binds it from another module
MatchingCalls(T) ==
    SelectSeq(promptCalls(T),
        LAMBDA c : \A st \in Range(ImportsOf(T, TextOf(T, FieldOf(T, c, "function")))) :
                      TextOf(T, FieldOf(T, st, "module_name")) \in ExpectedModules)

\* the name nodes of the call's own prompt= arguments when the call has no
\* system_prompt= argument of its own
UnambiguousPromptNames(T, c) ==
    IF KeywordsNamed(T, c, "system_prompt") # <<>> THEN {}
    ELSE {FieldOf(T, kw, "name") : kw \in Range(KeywordsNamed(T, c, "prompt"))}

\* C15: a call that has both prompt= and system_prompt= receives no edit, and
\* skipping it does not keep the other matching calls from being renamed: the
\* edits of the pass are exactly the renames of the prompt= names of the
\* unambiguous matching calls, and the output is the input with these applied.
C15_OnlyAmbiguousCallsSkipped ==
    (script = "prompt" /\ pc = "done") =>
        /\ \A c \in Range(MatchingCalls(root)) :
              (KeywordsNamed(root, c, "prompt") # <<>>
                  /\ KeywordsNamed(root, c, "system_prompt") # <<>>)
                  => Untouched(root, edits, c)
        /\ Range(edits) =
              {Replace(root, n, <<"system_prompt">>) :
                  n \in UNION {UnambiguousPromptNames(root, c) :
                                  c \in Range(MatchingCalls(root))}}

-----------------------------------------------------------------------------
(* Properties of aimessage-example-to-kwargs: which arguments are rewritten *)

KeywordArguments(T) == FindAll(T, 1, {n \in Nodes(T) : IsKind(T, n, "keyword_argument")})

\* kw is one of the arguments of a call of AIMessage
OwnArgument(T, kw) ==
    \E call \in Range(AIMessageCalls(T)) : kw \in Range(ArgsOf(T, call))

\* C16: aimessage-example-to-kwargs rewrites a keyword argument only if it is an
\* argument of the AIMessage call itself and is named example (its
\* additional_kwargs= sibling takes the merged value): a keyword argument of
\* another name whose value is the identifier example, and an example= of a call
\* nested in an argument, are left unchanged.
C16_OnlyOwnExampleRewritten ==
    (script = "aimessage" /\ pc = "done") =>
        \A kw \in Range(KeywordArguments(root)) :
            (\/ ~OwnArgument(root, kw)
             \/ TextOf(root, FieldOf(root, kw, "name"))
                    \notin {<<"example">>, <<"additional_kwargs">>})
                => Untouched(root, edits, kw)

-----------------------------------------------------------------------------
(* Properties of the planners: failures to locate a node *)

\* the outcome of a transform that stops with an error; transform() returns a
\* string or null and throws nowhere, so no action produces it
Failure == "failure"

\* const exampleArg = argList.find(...) of the call
ExampleArgOf(T, call) ==
    Find(T, FieldOf(T, call, "arguments"),
         {n \in Nodes(T) :
            /\ IsKind(T, n, "keyword_argument")
            /\ HasChild(T, n, {c \in Nodes(T) : IsIdent(T, c, "example")})})

\* allChildren.findIndex((child) => child.id() === arg.id()), -1 when not found
ArgIndex(T, arg, argList) ==
    LET allChildren == ChildrenOf(T, argList)
        hits == {k \in DOMAIN allChildren : allChildren[k] = arg}
    IN  IF hits = {} THEN -1 ELSE Min(hits) - 1

\* the pass planned a removal for the call although removeArgumentWithComma did
\* not find the argument among the children of the argument list
RemovalLostArgument(T, call) ==
    /\ Len(AIMessageEdits(T, call)) = 2
    /\ ArgIndex(T, ExampleArgOf(T, call), FieldOf(T, call, "arguments")) = -1

\* C14: when a detector has matched and the planner then fails to locate the
\* node it needs, the transform ends with an explicit failure, distinguishable
\* from the unchanged sentinel, and neither skips the site nor goes on silently.
C14_PlannerFailureSurfaced ==
    (script = "aimessage" /\ pc = "done"
        /\ \E k \in DOMAIN found : RemovalLostArgument(root, found[k]))
        => result = Failure

-----------------------------------------------------------------------------
(* The transforms together: one buffer, one of the codemods run on it *)

InitTransforms == InitReact \/ InitBindTools \/ InitFormat \/ InitPrompt

NextTransforms == NextReact \/ NextBindTools \/ NextFormat \/ NextPrompt

SpecTransforms == InitTransforms /\ [][NextTransforms]_vars

\* the detector of the running codemod found no match in the buffer: no import
\* of the function for create-react-agent-to-create-agent, no node for the others
NoMatch ==
    IF script = "react" THEN pc = "done" /\ namesToRename = <<>>
    ELSE pc = "done" /\ found = <<>>

\* C13: a transform returns null, without committing, whenever its edit list is
\* empty; a text is returned only as commitEdits of a non-empty edit list; a
\* buffer in which the detector finds no match yields null.
C13_UnchangedSentinel ==
    /\ (pc = "done" /\ edits = <<>>) => result = Null
    /\ result # Null => (pc = "done" /\ edits # <<>> /\ result = CommitEdits(root, edits))
    /\ NoMatch => result = Null

\* a finished pass of prompt-to-system-prompt whose detector had matched and
\* whose edit list stayed empty: it returned null
C13_Witness ==
    /\ pc = "done" /\ found # <<>> /\ edits = <<>> /\ result = Null
    /\ script = "prompt"

-----------------------------------------------------------------------------
(* langchain-classic-imports *)

LEGACY_MODULES == {"retrievers", "indexes"}

\* text.startsWith(prefix), both given by their atoms
StartsWith(t, prefix) ==
    Len(t) >= Len(prefix) /\ SubSeq(t, 1, Len(prefix)) = prefix

\* text === "hub" || text.startsWith("hub ") for one of the imported names of
\* an import whose module name is exactly langchain
isHubImport(T, node) ==
    LET moduleNameNode == FieldOf(T, node, "module_name")
    IN  /\ moduleNameNode # NoNode
        /\ TextOf(T, moduleNameNode) = <<"langchain">>
        /\ \E nameNode \in Range(BoundNames(T, node)) :
              \/ TextOf(T, nameNode) = <<"hub">>
              \/ StartsWith(TextOf(T, nameNode), <<"hub", " ">>)

isLegacyModuleImport(T, node) ==
    LET moduleNameNode == FieldOf(T, node, "module_name")
    IN  /\ moduleNameNode # NoNode
        /\ \E legacyModule \in LEGACY_MODULES :
              \/ TextOf(T, moduleNameNode) = <<"langchain", ".", legacyModule>>
              \/ StartsWith(TextOf(T, moduleNameNode),
                            <<"langchain", ".", legacyModule, ".">>)

isAlreadyMigrated(T, node) ==
    LET moduleNameNode == FieldOf(T, node, "module_name")
    IN  /\ moduleNameNode # NoNode
        /\ \/ StartsWith(TextOf(T, moduleNameNode), <<"langchain_classic", ".">>)
           \/ TextOf(T, moduleNameNode) = <<"langchain_classic">>

\* moduleText.replace(/^langchain\./, "langchain_classic.")
ReplaceLangchainPrefix(moduleText) ==
    IF StartsWith(moduleText, <<"langchain", ".">>)
    THEN <<"langchain_classic">> \o Tail(moduleText)
    ELSE moduleText

\* the edit that replaces the module name and nothing else of the statement
createImportEdit(T, node) ==
    LET moduleNameNode == FieldOf(T, node, "module_name")
        moduleText == TextOf(T, moduleNameNode)
        finalModuleName == IF moduleText = <<"langchain">> THEN <<"langchain_classic">>
                           ELSE ReplaceLangchainPrefix(moduleText)
    IN  IF moduleNameNode = NoNode THEN NoEdit
        ELSE Replace(T, moduleNameNode, finalModuleName)

(* Inputs: import statements from langchain, its legacy and other modules   *)
(* and langchain_classic, then uses of the imported names.                  *)

ClassicImportKinds ==
    {"retrievers", "retrieversSub", "indexes", "hub", "hubAs", "hubMore", "moreHub",
     "llms", "chain", "classic", "classicHub"}

ClassicImportOrder ==
    <<"retrievers", "retrieversSub", "indexes", "hub", "hubAs", "hubMore", "moreHub",
      "llms", "chain", "classic", "classicHub">>

ClassicImport(k) ==
    CASE k = "retrievers" ->
            \* from langchain.retrievers import R
            ImportFrom(Dotted2("langchain", "retrievers"), <<Name(<<"R">>)>>, "line")
      [] k = "retrieversSub" ->
            \* from langchain.retrievers.document_compressors import D
            ImportFrom(Dotted3("langchain", "retrievers", "document_compressors"),
                       <<Name(<<"D">>)>>, "line")
      [] k = "indexes" ->
            \* from langchain.indexes import (S, index)
            ImportFrom(Dotted2("langchain", "indexes"),
                       <<Name(<<"S">>), Name(<<"index">>)>>, "multi")
      [] k = "hub" ->
            \* from langchain import hub
            ImportFrom(Name(<<"langchain">>), <<Name(<<"hub">>)>>, "line")
      [] k = "hubAs" ->
            \* from langchain import hub as h
            ImportFrom(Name(<<"langchain">>), <<Aliased(<<"hub">>, "h")>>, "line")
      [] k = "hubMore" ->
            \* from langchain import hub, LLMChain
            ImportFrom(Name(<<"langchain">>),
                       <<Name(<<"hub">>), Name(<<"LLMChain">>)>>, "line")
      [] k = "moreHub" ->
            \* from langchain import (PromptTemplate as P, hub as h)
            ImportFrom(Name(<<"langchain">>),
                       <<Aliased(<<"PromptTemplate">>, "P"), Aliased(<<"hub">>, "h")>>,
                       "multi")
      [] k = "llms" ->
            \* from langchain.llms import OpenAI
            ImportFrom(Dotted2("langchain", "llms"), <<Name(<<"OpenAI">>)>>, "line")
      [] k = "chain" ->
            \* from langchain import LLMChain
            ImportFrom(Name(<<"langchain">>), <<Name(<<"LLMChain">>)>>, "line")
      [] k = "classic" ->
            \* from langchain_classic.retrievers import R
            ImportFrom(Dotted2("langchain_classic", "retrievers"), <<Name(<<"R">>)>>, "line")
      [] OTHER ->
            \* from langchain_classic import hub
            ImportFrom(Name(<<"langchain_classic">>), <<Name(<<"hub">>)>>, "line")

ClassicStmtKinds == {"pull", "use"}

ClassicStmtOrder == <<"pull", "use">>

ClassicStmt(k) ==
    CASE k = "pull" ->                       \* hub.pull(x)
            ExprStmt(Call(Attr(Id("hub"), "pull"), <<Id("x")>>))
      [] OTHER      ->                       \* LLMChain(x)
            ExprStmt(Call(Id("LLMChain"), <<Id("x")>>))

ClassicImports == {<<>>} \cup StmtSeqs(ClassicImportKinds, ClassicImportOrder, MaxImports)

ClassicBodies == {<<>>} \cup StmtSeqs(ClassicStmtKinds, ClassicStmtOrder, MaxStmts)

ClassicInput(imports, body) ==
    Module(Lines([k \in 1..Len(imports) |-> ClassicImport(imports[k])])
           \o Lines([k \in 1..Len(body) |-> ClassicStmt(body[k])]))

InitClassic ==
    /\ script = "classic"
    /\ \E imports \in ClassicImports, body \in ClassicBodies :
          /\ Len(imports) + Len(body) > 0
          /\ root = ClassicInput(imports, body)
    /\ pc = "imports"
    /\ found = ImportStmts(root)
    /\ i = 1
    /\ edits = <<>>
    /\ count = 0
    /\ importEdit = NoEdit
    /\ result = Null
    /\ pass = 1
    /\ namesToRename = <<>>
    /\ processedNodeIds = {}

\* if (isAlreadyMigrated(importNode)) continue
ClassicMigrated ==
    /\ script = "classic" /\ pc = "imports"
    /\ i <= Len(found)
    /\ isAlreadyMigrated(root, found[i])
    /\ i' = i + 1
    /\ UNCHANGED <<script, root, found, pc, edits, count, importEdit, result, pass,
                   namesToRename, processedNodeIds>>

\* if (isHubImport(importNode) || isLegacyModuleImport(importNode)) edits.push(edit)
ClassicEdit ==
    /\ script = "classic" /\ pc = "imports"
    /\ i <= Len(found)
    /\ ~isAlreadyMigrated(root, found[i])
    /\ isHubImport(root, found[i]) \/ isLegacyModuleImport(root, found[i])
    /\ LET edit == createImportEdit(root, found[i])
       IN  edits' = IF edit # NoEdit THEN Append(edits, edit) ELSE edits
    /\ i' = i + 1
    /\ UNCHANGED <<script, root, found, pc, count, importEdit, result, pass, namesToRename,
                   processedNodeIds>>

\* an import that is neither migrated, nor of hub, nor of a legacy module
ClassicOther ==
    /\ script = "classic" /\ pc = "imports"
    /\ i <= Len(found)
    /\ ~isAlreadyMigrated(root, found[i])
    /\ ~(isHubImport(root, found[i]) \/ isLegacyModuleImport(root, found[i]))
    /\ i' = i + 1
    /\ UNCHANGED <<script, root, found, pc, edits, count, importEdit, result, pass,
                   namesToRename, processedNodeIds>>

\* if (edits.length === 0) return null; return rootNode.commitEdits(edits)
ClassicReturn ==
    /\ script = "classic" /\ pc = "imports"
    /\ i > Len(found)
    /\ result' = ReturnValue(root, edits)
    /\ pc' = "done"
    /\ UNCHANGED <<script, root, found, i, edits, count, importEdit, pass, namesToRename,
                   processedNodeIds>>

NextClassic == ClassicMigrated \/ ClassicEdit \/ ClassicOther \/ ClassicReturn

SpecClassic == InitClassic /\ [][NextClassic]_vars

-----------------------------------------------------------------------------
(* Properties of langchain-classic-imports *)

\* the statement is one of the legacy imports: from langchain.retrievers[...],
\* from langchain.indexes[...] or from langchain import hub
IsLegacyImport(T, st) == isHubImport(T, st) \/ isLegacyModuleImport(T, st)

\* the bound name is hub, alone or under an alias
IsHubName(T, c) ==
    IF IsKind(T, c, "aliased_import")
    THEN TextOf(T, FieldOf(T, c, "name")) = <<"hub">>
    ELSE TextOf(T, c) = <<"hub">>

\* the text the statement has in the output; a module name is replaced atom for
\* atom, so the statement keeps its offsets
StmtInOutput(T, out, st) == Slice(out, StartOf(T, st), EndOf(T, st))

\* C21: langchain-classic-imports edits only the module name of the legacy
\* imports; imports of other langchain modules and of langchain_classic receive
\* no edit, and every name other than hub that was imported from langchain is
\* still imported from langchain after the pass.
C21_OnlyLegacyImportsEdited ==
    PassDone("classic") =>
        /\ \A k \in DOMAIN edits : \E st \in Range(ImportStmts(root)) :
              /\ IsLegacyImport(root, st)
              /\ edits[k].startPos = StartOf(root, FieldOf(root, st, "module_name"))
              /\ edits[k].endPos = EndOf(root, FieldOf(root, st, "module_name"))
        /\ \A st \in Range(ImportStmts(root)) :
              /\ (~IsLegacyImport(root, st) \/ isAlreadyMigrated(root, st))
                    => StmtInOutput(root, result, st) = TextOf(root, st)
              /\ (/\ TextOf(root, FieldOf(root, st, "module_name")) = <<"langchain">>
                  /\ \E c \in Range(BoundNames(root, st)) : ~IsHubName(root, c))
                    => LET m == FieldOf(root, st, "module_name")
                       IN  Slice(result, StartOf(root, m), EndOf(root, m)) = <<"langchain">>

-----------------------------------------------------------------------------
(* langchain-stream-event-agent-to-model *)

\* node.find({ rule: { kind: "string_content" } })?.text() === content
HasStringContent(T, node, content) ==
    LET c == Find(T, node, {n \in Nodes(T) : IsKind(T, n, "string_content")})
    IN  c # NoNode /\ TextOf(T, c) = <<content>>

isAgentString(T, node) == HasStringContent(T, node, "agent")

isNameString(T, node) == HasStringContent(T, node, "name")

StringsIn(T, n) == FindAll(T, n, {s \in Nodes(T) : IsKind(T, s, "string")})

\* the second part of findAgentStringInComparison: a subscript that holds a
\* string "name", or a call of .get whose arguments hold one
NameAccessIn(T, comparison) ==
    \/ \E sub \in Range(FindAll(T, comparison, {n \in Nodes(T) : IsKind(T, n, "subscript")})) :
          \E str \in Range(StringsIn(T, sub)) : isNameString(T, str)
    \/ \E call \in Range(FindAll(T, comparison, {n \in Nodes(T) : IsKind(T, n, "call")})) :
          LET attr == FieldOf(T, call, "function")
              methodName == IF attr # NoNode /\ IsKind(T, attr, "attribute")
                            THEN FieldOf(T, attr, "attribute") ELSE NoNode
              args == FieldOf(T, call, "arguments")
          IN  /\ methodName # NoNode
              /\ TextOf(T, methodName) = <<"get">>
              /\ args # NoNode
              /\ \E str \in Range(StringsIn(T, args)) : isNameString(T, str)

\* the last "agent" string of the comparison when the comparison has a name
\* context, NoNode otherwise
findAgentStringInComparison(T, comparison) ==
    LET strings == StringsIn(T, comparison)
        names == {k \in DOMAIN strings : isNameString(T, strings[k])}
        agents == {k \in DOMAIN strings : isAgentString(T, strings[k])}
        agentStringNode == IF agents = {} THEN NoNode ELSE strings[Max(agents)]
        hasNameContext == names # {} \/ NameAccessIn(T, comparison)
    IN  IF hasNameContext /\ agentStringNode # NoNode THEN agentStringNode ELSE NoNode

\* text.replace(/agent/g, "model")
ReplaceAgent(text) == [k \in DOMAIN text |-> IF text[k] = "agent" THEN "model" ELSE text[k]]

createReplacement(T, agentNode) == Replace(T, agentNode, ReplaceAgent(TextOf(T, agentNode)))

(* Inputs: comparisons of an event field with a node name, and statements   *)
(* that hold the string "agent" outside a comparison.                       *)

\* q content q
Str(q, content) ==
    Wrap("string", CatAll(<<Leaf("string_start", <<q>>), Leaf("string_content", <<content>>),
                            Leaf("string_end", <<q>>)>>))

\* value [ key ]
Subscript(value, key) ==
    Wrap("subscript",
         CatAll(<<InField("value", value), Tok("["), InField("subscript", key), Tok("]")>>))

\* [ a, b ]
List(items) == Wrap("list", CatAll(<<Tok("[")>> \o CommaSep(items) \o <<Tok("]")>>))

\* left op right
Comparison(left, op, right) ==
    Wrap("comparison_operator",
         CatAll(<<left, Sp, InField("operators", Tok(op)), Sp, right>>))

Parenthesized(e) == Wrap("parenthesized_expression", CatAll(<<Tok("("), e, Tok(")")>>))

Assignment(left, right) ==
    Wrap("assignment",
         CatAll(<<InField("left", left), Sp, Tok("="), Sp, InField("right", right)>>))

StreamStmtOrder ==
    <<"sub", "subS", "get", "rev", "inList", "tool", "nested", "getType", "subType",
      "typeInList", "fetch", "var", "assign", "print">>

StreamStmtKinds == Range(StreamStmtOrder)

StreamStmt(k) ==
    CASE k = "sub" ->                        \* event["name"] == "agent"
            Comparison(Subscript(Id("event"), Str("\"", "name")), "==", Str("\"", "agent"))
      [] k = "subS" ->                       \* event['name'] != 'agent'
            Comparison(Subscript(Id("event"), Str("'", "name")), "!=", Str("'", "agent"))
      [] k = "get" ->                        \* event.get("name") == "agent"
            Comparison(Call(Attr(Id("event"), "get"), <<Str("\"", "name")>>), "==",
                       Str("\"", "agent"))
      [] k = "rev" ->                        \* "agent" == event["name"]
            Comparison(Str("\"", "agent"), "==", Subscript(Id("event"), Str("\"", "name")))
      [] k = "inList" ->                     \* event.get("name") in ["agent", "tool"]
            Comparison(Call(Attr(Id("event"), "get"), <<Str("\"", "name")>>), "in",
                       List(<<Str("\"", "agent"), Str("\"", "tool")>>))
      [] k = "tool" ->                       \* event["name"] == "tool"
            Comparison(Subscript(Id("event"), Str("\"", "name")), "==", Str("\"", "tool"))
      [] k = "nested" ->                     \* (event["name"] == "agent") == ok
            Comparison(Parenthesized(Comparison(Subscript(Id("event"), Str("\"", "name")),
                                                "==", Str("\"", "agent"))),
                       "==", Id("ok"))
      [] k = "getType" ->                    \* event.get("type") == "agent"
            Comparison(Call(Attr(Id("event"), "get"), <<Str("\"", "type")>>), "==",
                       Str("\"", "agent"))
      [] k = "subType" ->                    \* event["type"] != "agent"
            Comparison(Subscript(Id("event"), Str("\"", "type")), "!=", Str("\"", "agent"))
      [] k = "typeInList" ->                 \* event["type"] in ["agent", "name"]
            Comparison(Subscript(Id("event"), Str("\"", "type")), "in",
                       List(<<Str("\"", "agent"), Str("\"", "name")>>))
      [] k = "fetch" ->                      \* cfg.fetch("name") == "agent"
            Comparison(Call(Attr(Id("cfg"), "fetch"), <<Str("\"", "name")>>), "==",
                       Str("\"", "agent"))
      [] k = "var" ->                        \* kind == "agent"
            Comparison(Id("kind"), "==", Str("\"", "agent"))
      [] k = "assign" ->                     \* agent_type = "agent"
            Assignment(Id("agent_type"), Str("\"", "agent"))
      [] OTHER ->                            \* print("agent")
            Call(Id("print"), <<Str("\"", "agent")>>)

StreamBodies == StmtSeqs(StreamStmtKinds, StreamStmtOrder, MaxStmts)

StreamInput(body) == Module(Lines([k \in 1..Len(body) |-> ExprStmt(StreamStmt(body[k]))]))

\* const comparisons = rootNode.findAll({ rule: { kind: "comparison_operator" } })
comparisons(T) == FindAll(T, 1, {n \in Nodes(T) : IsKind(T, n, "comparison_operator")})

InitStream ==
    /\ script = "stream"
    /\ \E body \in StreamBodies : root = StreamInput(body)
    /\ pc = "comparisons"
    /\ found = comparisons(root)
    /\ i = 1
    /\ edits = <<>>
    /\ count = 0
    /\ importEdit = NoEdit
    /\ result = Null
    /\ pass = 1
    /\ namesToRename = <<>>
    /\ processedNodeIds = {}

\* if (agentString && !processedNodeIds.has(agentString.id())) {...}
StreamReplace ==
    /\ script = "stream" /\ pc = "comparisons"
    /\ i <= Len(found)
    /\ LET agentString == findAgentStringInComparison(root, found[i])
       IN  /\ agentString # NoNode
           /\ agentString \notin processedNodeIds
           /\ processedNodeIds' = processedNodeIds \cup {agentString}
           /\ edits' = Append(edits, createReplacement(root, agentString))
    /\ i' = i + 1
    /\ UNCHANGED <<script, root, found, pc, count, importEdit, result, pass, namesToRename>>

\* the "agent" string of the comparison has been replaced for an enclosing one
StreamProcessed ==
    /\ script = "stream" /\ pc = "comparisons"
    /\ i <= Len(found)
    /\ LET agentString == findAgentStringInComparison(root, found[i])
       IN  agentString # NoNode /\ agentString \in processedNodeIds
    /\ i' = i + 1
    /\ UNCHANGED <<script, root, found, pc, edits, count, importEdit, result, pass,
                   namesToRename, processedNodeIds>>

\* findAgentStringInComparison returned null
StreamSkip ==
    /\ script = "stream" /\ pc = "comparisons"
    /\ i <= Len(found)
    /\ findAgentStringInComparison(root, found[i]) = NoNode
    /\ i' = i + 1
    /\ UNCHANGED <<script, root, found, pc, edits, count, importEdit, result, pass,
                   namesToRename, processedNodeIds>>

\* if (edits.length === 0) return null; return rootNode.commitEdits(edits)
StreamReturn ==
    /\ script = "stream" /\ pc = "comparisons"
    /\ i > Len(found)
    /\ result' = ReturnValue(root, edits)
    /\ pc' = "done"
    /\ UNCHANGED <<script, root, found, i, edits, count, importEdit, pass, namesToRename,
                   processedNodeIds>>

NextStream == StreamReplace \/ StreamProcessed \/ StreamSkip \/ StreamReturn

SpecStream == InitStream /\ [][NextStream]_vars

-----------------------------------------------------------------------------
(* Properties of langchain-stream-event-agent-to-model *)

\* the string is the key of a subscript
IsSubscriptKey(T, s) ==
    IsKind(T, ParentOf(T, s), "subscript") /\ T.nodes[s].field = "subscript"

\* the string is an argument of a call of .get
IsGetArgument(T, s) ==
    LET args == ParentOf(T, s)
        call == IF args = NoNode THEN NoNode ELSE ParentOf(T, args)
    IN  /\ args # NoNode /\ IsKind(T, args, "argument_list")
        /\ call # NoNode /\ IsKind(T, call, "call")
        /\ LET func == FieldOf(T, call, "function")
           IN  /\ func # NoNode /\ IsKind(T, func, "attribute")
               /\ TextOf(T, FieldOf(T, func, "attribute")) = <<"get">>

\* the comparison accesses the key "name": by a subscript or by .get
AccessesName(T, comparison) ==
    \E s \in Range(StringsIn(T, comparison)) :
        isNameString(T, s) /\ (IsSubscriptKey(T, s) \/ IsGetArgument(T, s))

\* the comparisons the node lies in
ComparisonsAround(T, n) ==
    {a \in Range(AncestorsOf(T, n)) : IsKind(T, a, "comparison_operator")}

\* C22: langchain-stream-event-agent-to-model replaces a string "agent" only
\* where "name" is the key being compared, a subscript key or the argument of
\* .get; a comparison whose accessed key is not "name" is never transformed,
\* also when a string "name" occurs elsewhere in it.
C22_OnlyNameKeyedComparisons ==
    (script = "stream" /\ pc = "done") =>
        \A s \in Range(StringsIn(root, 1)) :
            Rewritten(root, edits, s)
                => \E c \in ComparisonsAround(root, s) : AccessesName(root, c)

-----------------------------------------------------------------------------
(* Call targets of prompt-to-system-prompt *)

\* the callee is bound by an import from langchain.agents or langgraph.prebuilt
ResolvesToExpected(T, funcNode) ==
    \E st \in Range(ImportStmts(T)) :
        /\ TextOf(T, FieldOf(T, st, "module_name")) \in ExpectedModules
        /\ \E c \in Range(BoundNames(T, st)) : TextOf(T, c) = TextOf(T, funcNode)

\* the edit lies within the node
EditWithin(T, ed, n) == StartOf(T, n) <= ed.startPos /\ ed.endPos <= EndOf(T, n)

\* C23: prompt-to-system-prompt emits no edit for a call whose callee does not
\* resolve to create_agent / create_react_agent imported from langchain.agents
\* or langgraph.prebuilt: an unresolved callee, a local definition and an
\* import from another module all leave the call as it is.
C23_UnresolvedCallsUntouched ==
    (script = "prompt" /\ pc = "done") =>
        \A call \in Range(promptCalls(root)) :
            ~ResolvesToExpected(root, FieldOf(root, call, "function"))
                => \A k \in DOMAIN edits : ~EditWithin(root, edits[k], call)

-----------------------------------------------------------------------------
(* Targets of system-message-to-prompt *)

\* the prompt= / system_prompt= arguments of the agent calls whose value is a
\* call of SystemMessage
SystemMessageArgs(T) ==
    SelectSeq(KeywordArguments(T),
        LAMBDA kw :
            /\ TextOf(T, FieldOf(T, kw, "name")) \in {<<"prompt">>, <<"system_prompt">>}
            /\ ParentCall(T, kw) # NoNode
            /\ FieldOf(T, ParentCall(T, kw), "function") # NoNode
            /\ TextOf(T, FieldOf(T, ParentCall(T, kw), "function"))
                  \in {<<"create_agent">>, <<"create_react_agent">>}
            /\ IsKind(T, FieldOf(T, kw, "value"), "call")
            /\ TextOf(T, FieldOf(T, FieldOf(T, kw, "value"), "function")) = <<"SystemMessage">>)

\* C24: system-message-to-prompt transforms a prompt= / system_prompt= value
\* SystemMessage(...) only if the SystemMessage call itself has a keyword
\* argument content, whose value is the extracted text; a SystemMessage call with
\* positional arguments only is never transformed, also when one of them is a
\* call that has a content= keyword.
C24_PositionalFormsSkipped ==
    (script = "sysmsg" /\ pc = "done") =>
        \A kw \in Range(SystemMessageArgs(root)) :
            EditsIn(root, edits, kw) # <<>>
                => LET own == KeywordsNamed(root, FieldOf(root, kw, "value"), "content")
                   IN  /\ own # <<>>
                       /\ \A k \in DOMAIN EditsIn(root, edits, kw) :
                             EndsWith(EditsIn(root, edits, kw)[k].insertedText,
                                      TextOf(root, FieldOf(root, own[1], "value")))

\* the calls of create_agent / create_react_agent by their bare name
AgentCalls(T) ==
    FindAll(T, 1,
        {n \in Nodes(T) :
            /\ IsKind(T, n, "call")
            /\ FieldOf(T, n, "function") # NoNode
            /\ IsKind(T, FieldOf(T, n, "function"), "identifier")
            /\ TextOf(T, FieldOf(T, n, "function"))
                  \in {<<"create_agent">>, <<"create_react_agent">>}})

\* C28: system-message-to-prompt renames no prompt=SystemMessage(content=...)
\* of a call that has a system_prompt= keyword argument, so that no call gets a
\* second system_prompt keyword argument.
C28_NoRenameBesideSystemPrompt ==
    (script = "sysmsg" /\ pc = "done") =>
        \A call \in Range(AgentCalls(root)) :
            KeywordsNamed(root, call, "system_prompt") # <<>>
                => \A kw \in Range(KeywordsNamed(root, call, "prompt")) :
                      ~Rewritten(root, edits, kw)

-----------------------------------------------------------------------------
(* Return types of bind-tools-return-type *)

ChildrenOfKind(T, n, kind) == SelectSeq(ChildrenOf(T, n), LAMBDA c : IsKind(T, c, kind))

\* the second type argument of the Runnable[...] that is the return annotation
\* of the function, NoNode when the function has none
OutputTypeOf(T, funcNode) ==
    LET ret == FieldOf(T, funcNode, "return_type")
        generic == IF ret = NoNode THEN <<>> ELSE ChildrenOfKind(T, ret, "generic_type")
        params == IF generic = <<>> THEN <<>>
                  ELSE ChildrenOfKind(T, generic[1], "type_parameter")
        args == IF params = <<>> THEN <<>> ELSE ChildrenOfKind(T, params[1], "type")
    IN  IF /\ generic # <<>>
           /\ HasChild(T, generic[1], {c \in Nodes(T) : IsIdent(T, c, "Runnable")})
           /\ Len(args) >= 2
        THEN args[2] ELSE NoNode

\* C25: bind-tools-return-type replaces BaseMessage only where it is the second
\* type parameter of Runnable[..., BaseMessage] in the return annotation of a
\* function named bind_tools; a BaseMessage inside the first type argument, or
\* inside a Runnable[...] of a parameter annotation, is never replaced.
C25_OnlyReturnOutputType ==
    (script = "bindtools" /\ pc = "done") =>
        \A ref \in Range(RefsOutsideImports(root, "BaseMessage")) :
            Rewritten(root, edits, ref)
                => \E f \in Range(bindToolsFunctions(root)) :
                      /\ OutputTypeOf(root, f) # NoNode
                      /\ Within(root, ref, OutputTypeOf(root, f))

-----------------------------------------------------------------------------
(* Imports of bind-tools-return-type *)

\* the items of the import lists of a text, read as Python reads them: what
\* follows the keyword import up to the end of the line, or up to the closing
\* parenthesis, split at the commas; an item is  name  or  name as alias
RECURSIVE ScanImports(_, _, _, _, _, _)
ScanImports(t, k, inImport, inParen, cur, acc) ==
    LET flushed == IF cur = <<>> THEN acc ELSE Append(acc, cur)
    IN  IF k > Len(t) THEN flushed
        ELSE IF ~inImport
        THEN ScanImports(t, k + 1, t[k] = "import", FALSE, <<>>, acc)
        ELSE IF t[k] = "(" THEN ScanImports(t, k + 1, TRUE, TRUE, cur, acc)
        ELSE IF t[k] = ")" THEN ScanImports(t, k + 1, FALSE, FALSE, <<>>, flushed)
        ELSE IF t[k] = "\n"
        THEN IF inParen THEN ScanImports(t, k + 1, TRUE, TRUE, cur, acc)
             ELSE ScanImports(t, k + 1, FALSE, FALSE, <<>>, flushed)
        ELSE IF t[k] = "," THEN ScanImports(t, k + 1, TRUE, inParen, <<>>, flushed)
        ELSE IF t[k] = " " THEN ScanImports(t, k + 1, TRUE, inParen, cur, acc)
        ELSE ScanImports(t, k + 1, TRUE, inParen, Append(cur, t[k]), acc)

\* the bindings the imports of a text make: the bound name and the symbol
Bindings(t) ==
    LET items == ScanImports(t, 1, FALSE, FALSE, <<>>, <<>>)
    IN  [k \in DOMAIN items |-> [bound |-> Last(items[k]), symbol |-> items[k][1]]]

BindingsOf(t, name) == SelectSeq(Bindings(t), LAMBDA b : b.bound = name)

\* C26: after a pass of bind-tools-return-type that rewrites a return type, the
\* output binds the name AIMessage by exactly one import, and every other
\* imported symbol or alias is bound to what it was bound to in the input.
C26_AIMessageImportedOnce ==
    PassDone("bindtools") =>
        /\ Len(BindingsOf(result, "AIMessage")) = 1
        /\ BindingsOf(result, "AIMessage")[1].symbol = "AIMessage"
        /\ \A b \in Range(Bindings(root.text)) :
              (b.symbol # "BaseMessage" /\ b.bound # "AIMessage")
                  => BindingsOf(result, b.bound) = BindingsOf(root.text, b.bound)

-----------------------------------------------------------------------------
(* Import pruning: the decision between the statement and the name *)

\* C27: the pruning edit deletes the whole import statement if and only if the
\* pruned name is the only name the statement binds; when the statement binds
\* another name, aliased ones included, only the pruned name goes and every other
\* binding is still made by the output.
C27_SoleNameDecision ==
    (PassDone("unwrap") /\ importEdit # NoEdit) =>
        LET st == EditedImport(root, importEdit)
        IN  /\ st # NoNode
            /\ DeletesStatement(root, st, importEdit) <=> Len(BoundNames(root, st)) = 1
            /\ \A b \in Range(Bindings(root.text)) :
                  b.bound # "ToolNode" => b \in Range(Bindings(result))

-----------------------------------------------------------------------------
(* Other names of the rewritten import of create-react-agent-to-create-agent *)

\* C29: when create-react-agent-to-create-agent rewrites an import from
\* langgraph.prebuilt that binds create_react_agent together with other names,
\* every other name the statement bound is still imported in the output.
C29_OtherNamesStillImported ==
    PassDone("react") =>
        \A b \in Range(Bindings(root.text)) :
            b.symbol # OLD_FUNCTION
                => \E c \in Range(Bindings(result)) : c.bound = b.bound /\ c.symbol = b.symbol

-----------------------------------------------------------------------------
(* Edits per ToolNode call of unwrap-tool-node-in-agent *)

\* the calls of ToolNode the planned edits replace
RewrittenToolNodeCalls(T, es) ==
    {n \in Range(UnwrapCalls(T)) : isToolNodeCall(T, n) /\ Rewritten(T, es, n)}

\* C30: in unwrap-tool-node-in-agent each ToolNode(...) call yields at most one
\* replace edit and one increment of transformedToolNodeCount per pass, also
\* when agent-creation calls are nested in one another's arguments: at the end
\* of the loop the counter equals the number of call nodes being rewritten and
\* no two edits have the same span.
C30_OneEditPerToolNodeCall ==
    (script = "unwrap" /\ pc \in {"commit", "done"}) =>
        /\ count = Cardinality(RewrittenToolNodeCalls(root, edits))
        /\ \A j, k \in DOMAIN edits :
              (j # k) => ~(/\ edits[j].startPos = edits[k].startPos
                           /\ edits[j].endPos = edits[k].endPos)

====
